---- MODULE Spec2Model ----
(***************************************************************************)
(* Model of the study-assistant application: the AI-response ingestion     *)
(* layer of services/geminiService.ts (cleanJson, repairJson,              *)
(* fallbackExtraction, analyzeLectureContent) and the QuizView component.  *)
(*                                                                         *)
(* Texts are TLA+ strings; the character at position i of s is             *)
(* SubSeq(s, i, i), positions are 1-based and 0 plays the part of          *)
(* JavaScript's -1 ("not found").  The TLA+ lexer accepts no backquote in  *)
(* a string literal, so the character "~" stands for the backquote         *)
(* throughout (no pattern of the code mentions "~").                       *)
(*                                                                         *)
(* The model checker evaluates an operator's argument, and a LET           *)
(* definition, each time it is used.  A value that is costly to compute    *)
(* and used more than once is therefore bound with Let1, and loops over    *)
(* the characters of a text are stated over sets of positions or by        *)
(* halving the range, never one character per level of recursion.          *)
(***************************************************************************)
EXTENDS Integers, Sequences, FiniteSets, TLC

\* F(e), with e evaluated once
Let1(e, F(_)) == CHOOSE r \in {F(v) : v \in {e}} : TRUE

(***************************************************************************)
(* String primitives of the JavaScript runtime used by the service.        *)
(***************************************************************************)
\* s[i], the empty string (no character) outside the text
Ch(s, i) == IF 1 <= i /\ i <= Len(s) THEN SubSeq(s, i, i) ELSE ""

\* the backquote character, and the two fence markers cleanJson removes
BT == "~"
Fence == BT \o BT \o BT
FenceJson == Fence \o "json"

\* the characters matched by \s and removed by String.prototype.trim
WS == {" ", "\t", "\n", "\r", "\f"}

StartsWithAt(s, pat, i) ==
  /\ 1 <= i
  /\ i + Len(pat) - 1 <= Len(s)
  /\ SubSeq(s, i, i + Len(pat) - 1) = pat

\* the least and the greatest element of a set of positions, 0 when empty
MinPos(S) ==
  Let1(S, LAMBDA T : IF T = {} THEN 0 ELSE CHOOSE a \in T : \A b \in T : a <= b)
MaxPos(S) ==
  Let1(S, LAMBDA T : IF T = {} THEN 0 ELSE CHOOSE a \in T : \A b \in T : b <= a)

\* the least position in lo..hi that satisfies P, 0 when none does: how a
\* left-to-right search ends
FirstPos(lo, hi, P(_)) == MinPos({j \in lo..hi : P(j)})

\* s.indexOf(pat) searched from position i on; 0 when absent
IndexOfFrom(s, pat, i) == FirstPos(i, Len(s), LAMBDA j : StartsWithAt(s, pat, j))

IndexOf(s, pat) == IndexOfFrom(s, pat, 1)

\* a variant of lastIndexOf that stops at the first occurrence
FirstIndexOf(s, c) == MinPos({j \in 1..Len(s) : Ch(s, j) = c})

\* s.lastIndexOf(c) for a one-character c
LastIndexOf(s, c) == MaxPos({j \in 1..Len(s) : Ch(s, j) = c})

\* s.includes(sub)
Includes(s, sub) == IndexOf(s, sub) # 0

\* s.replace(/pat/g, ""): every occurrence of the literal pat, left to right
RECURSIVE RemoveAll(_, _)
RemoveAll(s, pat) ==
  Let1(IndexOf(s, pat), LAMBDA j :
    IF j = 0 THEN s
    ELSE Let1(SubSeq(s, j + Len(pat), Len(s)), LAMBDA rest :
           SubSeq(s, 1, j - 1) \o RemoveAll(rest, pat)))

\* the positions of s that hold no white space
Inked(s) == {j \in 1..Len(s) : Ch(s, j) \notin WS}

\* s.trim()
Trim(s) ==
  Let1(Inked(s), LAMBDA K : IF K = {} THEN "" ELSE SubSeq(s, MinPos(K), MaxPos(K)))

\* s without the white space at its end
TrimEnd(s) == SubSeq(s, 1, MaxPos(Inked(s)))

EndsWith(s, c) == Len(s) > 0 /\ Ch(s, Len(s)) = c

(***************************************************************************)
(* cleanJson: strip the code-fence markers, slice from the first "{" to    *)
(* the last "}" (to the end of the text when no "}" follows the "{").      *)
(***************************************************************************)
\* lines 59-65 on the text without its fence markers
BraceSlice(cleaned) ==
  Let1(IndexOf(cleaned, "{"), LAMBDA firstBrace :
    IF firstBrace = 0 THEN cleaned
    ELSE Let1(LastIndexOf(cleaned, "}"), LAMBDA lastBrace :
           IF lastBrace # 0 /\ lastBrace > firstBrace
           THEN SubSeq(cleaned, firstBrace, lastBrace)
           ELSE SubSeq(cleaned, firstBrace, Len(cleaned))))

\* line 58: text.replace(/```json/g, "").replace(/```/g, "")
StripFences(text) ==
  Let1(RemoveAll(text, FenceJson), LAMBDA noJson : RemoveAll(noJson, Fence))

cleanJson(text) == Let1(StripFences(text), LAMBDA cleaned : BraceSlice(cleaned))

(***************************************************************************)
(* repairJson: trim, drop one trailing backslash, drop a trailing comma    *)
(* (with the white space after it), then close what the scan leaves open.  *)
(***************************************************************************)
\* repaired.replace(/,\s*$/, ''): the comma that only white space follows
DropTrailingComma(s) ==
  Let1(TrimEnd(s), LAMBDA t :
    IF EndsWith(t, ",") THEN SubSeq(t, 1, Len(t) - 1) ELSE s)

\* if (repaired.endsWith("\\")) repaired = repaired.slice(0, -1)
DropTrailingBackslash(s) ==
  IF EndsWith(s, "\\") THEN SubSeq(s, 1, Len(s) - 1) ELSE s

\* one iteration of the for loop of repairJson on the character char; the
\* scan state is [stack, inString, escape], the stack a string of "{" and
\* "[" with its top last
ScanStep(st, char) ==
  LET inStr == IF char = "\"" /\ ~st.escape THEN ~st.inString ELSE st.inString
      esc   == (char = "\\" /\ ~st.escape)
      top   == Ch(st.stack, Len(st.stack))
      pop   == SubSeq(st.stack, 1, Len(st.stack) - 1)
      stk   == IF inStr THEN st.stack
               ELSE IF char = "{" \/ char = "[" THEN st.stack \o char
               ELSE IF char = "}" THEN (IF top = "{" THEN pop ELSE st.stack)
               ELSE IF char = "]" THEN (IF top = "[" THEN pop ELSE st.stack)
               ELSE st.stack
  IN [stack |-> stk, inString |-> inStr, escape |-> esc]

\* the iterations lo..hi of the for loop, in order, from scan state st
RECURSIVE ScanRange(_, _, _, _)
ScanRange(s, lo, hi, st) ==
  IF lo > hi THEN st
  ELSE IF lo = hi THEN ScanStep(st, Ch(s, lo))
  ELSE Let1((lo + hi) \div 2, LAMBDA mid :
         Let1(ScanRange(s, lo, mid, st), LAMBDA left :
           ScanRange(s, mid + 1, hi, left)))

ScanInit == [stack |-> "", inString |-> FALSE, escape |-> FALSE]

\* the scan state when the for loop has scanned all of s
ScanAll(s) == ScanRange(s, 1, Len(s), ScanInit)

\* the while loop of repairJson: one closer per stack entry, from entry i
\* down to the bottom of the stack (the top is popped first)
RECURSIVE ClosersFrom(_, _)
ClosersFrom(stack, i) ==
  IF i < 1 THEN ""
  ELSE (IF Ch(stack, i) = "{" THEN "}" ELSE "]") \o ClosersFrom(stack, i - 1)

\* one closer per stack entry, in the order of opening
RECURSIVE ClosersForwardFrom(_, _)
ClosersForwardFrom(stack, i) ==
  IF i > Len(stack) THEN ""
  ELSE (IF Ch(stack, i) = "{" THEN "}" ELSE "]") \o ClosersForwardFrom(stack, i + 1)

ClosersForward(stack) == ClosersForwardFrom(stack, 1)

Closers(stack) == ClosersFrom(stack, Len(stack))

\* lines 70-72: what repairJson scans
repairPrefix(jsonStr) ==
  Let1(Trim(jsonStr), LAMBDA trimmed :
    Let1(DropTrailingBackslash(trimmed), LAMBDA noSlash :
      DropTrailingComma(noSlash)))

repairJson(jsonStr) ==
  Let1(repairPrefix(jsonStr), LAMBDA repaired :
    Let1(ScanAll(repaired).stack, LAMBDA stack :
      repaired \o Closers(stack)))

(***************************************************************************)
(* JavaScript values as JSON.parse builds them.  Every value has the same  *)
(* record shape: t is the type tag (typeof, with null and array told       *)
(* apart), a number is n / 10^d (d >= 0, no trailing zero in the           *)
(* fraction), s is a string's text, k holds an array's elements and m the  *)
(* named properties of an object (or those assigned to an array) as key,   *)
(* value, key, value ... (keys as string values, in insertion order, each  *)
(* key once).                                                              *)
(***************************************************************************)
JV(t, n, d, s, k, m) == [t |-> t, n |-> n, d |-> d, s |-> s, k |-> k, m |-> m]
JUndef   == JV("undefined", 0, 0, "", <<>>, <<>>)
JNull    == JV("null", 0, 0, "", <<>>, <<>>)
JTrue    == JV("true", 0, 0, "", <<>>, <<>>)
JFalse   == JV("false", 0, 0, "", <<>>, <<>>)
JStr(s)  == JV("string", 0, 0, s, <<>>, <<>>)
JArr(k)  == JV("array", 0, 0, "", k, <<>>)
JObj(m)  == JV("object", 0, 0, "", <<>>, m)

RECURSIVE Pow10(_)
Pow10(e) == IF e <= 0 THEN 1 ELSE 10 * Pow10(e - 1)

\* the number n / 10^d, normalised (d may come in negative: an exponent)
RECURSIVE JNum(_, _)
JNum(n, d) ==
  IF d < 0 THEN JNum(n * Pow10(0 - d), 0)
  ELSE IF d > 0 /\ n % 10 = 0 THEN JNum(n \div 10, d - 1)
  ELSE JV("number", n, d, "", <<>>, <<>>)

JInt(n) == JNum(n, 0)

\* obj[key] = val on the member list m (searched from position p)
RECURSIVE PutMember(_, _, _, _)
PutMember(m, key, val, p) ==
  IF p > Len(m) THEN m \o <<JStr(key), val>>
  ELSE IF m[p].s = key THEN [m EXCEPT ![p + 1] = val]
  ELSE PutMember(m, key, val, p + 2)

RECURSIVE GetMember(_, _, _)
GetMember(m, key, p) ==
  IF p > Len(m) THEN JUndef
  ELSE IF m[p].s = key THEN m[p + 1]
  ELSE GetMember(m, key, p + 2)

\* v[key] for a named property: undefined when absent, and for a primitive
\* (reading a property of null or undefined throws: see CanRead)
Prop(v, key) == GetMember(v.m, key, 1)

\* whether v.key can be evaluated at all (a TypeError otherwise)
CanRead(v) == v.t \notin {"null", "undefined"}

\* whether v.key = x can be evaluated: the module is strict-mode code, where
\* creating a property on a primitive throws a TypeError
CanWrite(v) == v.t \in {"object", "array"}

SetProp(v, key, val) == [v EXCEPT !.m = PutMember(v.m, key, val, 1)]

\* ToBoolean
Truthy(v) ==
  CASE v.t \in {"undefined", "null", "false"} -> FALSE
    [] v.t = "number" -> v.n # 0
    [] v.t = "string" -> v.s # ""
    [] OTHER -> TRUE

IsArray(v) == v.t = "array"

(***************************************************************************)
(* JSON.parse: the ECMAScript JSON grammar.  A parse step returns          *)
(* [ok, v, i]: whether it succeeded, the value, the position after it.     *)
(* The escapes \b and \uXXXX are accepted and kept undecoded: a TLA+       *)
(* string cannot hold the character they denote.                           *)
(***************************************************************************)
JsonWS == {" ", "\t", "\n", "\r"}
Digits == {"0", "1", "2", "3", "4", "5", "6", "7", "8", "9"}
HexDigits == Digits \cup {"a", "b", "c", "d", "e", "f", "A", "B", "C", "D", "E", "F"}
ControlChars == {"\t", "\n", "\r", "\f"}

PFail == [ok |-> FALSE, v |-> JUndef, i |-> 0]
POk(v, i) == [ok |-> TRUE, v |-> v, i |-> i]

RECURSIVE SkipWs(_, _)
SkipWs(s, i) == IF i <= Len(s) /\ Ch(s, i) \in JsonWS THEN SkipWs(s, i + 1) ELSE i

\* the position after the run of digits that starts at i
RECURSIVE DigitsEnd(_, _)
DigitsEnd(s, i) == IF i <= Len(s) /\ Ch(s, i) \in Digits THEN DigitsEnd(s, i + 1) ELSE i

DigitVal(c) == CHOOSE n \in 0..9 : Ch("0123456789", n + 1) = c

\* the value of the digits s[i..j-1], continuing from acc
RECURSIVE NumOf(_, _, _, _)
NumOf(s, i, j, acc) ==
  IF i >= j THEN acc ELSE NumOf(s, i + 1, j, 10 * acc + DigitVal(Ch(s, i)))

\* the number whose sign is at i (if any), integer digits at a..b-1,
\* fraction digits at b+1..c-1 (none when c = b) and exponent ev
NumValue(s, i, a, b, c, ev) ==
  Let1(NumOf(s, b + 1, c, NumOf(s, a, b, 0)), LAMBDA mant :
    JNum(IF Ch(s, i) = "-" THEN 0 - mant ELSE mant,
         (IF c > b THEN c - b - 1 ELSE 0) - ev))

\* the exponent part, at c
NumExponent(s, i, a, b, c) ==
  IF Ch(s, c) \notin {"e", "E"} THEN POk(NumValue(s, i, a, b, c, 0), c)
  ELSE Let1(IF Ch(s, c + 1) \in {"+", "-"} THEN c + 2 ELSE c + 1, LAMBDA e0 :
         Let1(DigitsEnd(s, e0), LAMBDA e1 :
           IF e1 = e0 THEN PFail
           ELSE Let1(NumOf(s, e0, e1, 0), LAMBDA ev :
                  POk(NumValue(s, i, a, b, c,
                               IF Ch(s, c + 1) = "-" THEN 0 - ev ELSE ev), e1))))

\* the fraction part, at b
NumFraction(s, i, a, b) ==
  IF Ch(s, b) # "." THEN NumExponent(s, i, a, b, b)
  ELSE Let1(DigitsEnd(s, b + 1), LAMBDA c :
         IF c = b + 1 THEN PFail ELSE NumExponent(s, i, a, b, c))

ParseNumber(s, i) ==
  Let1(IF Ch(s, i) = "-" THEN i + 1 ELSE i, LAMBDA a :
    Let1(DigitsEnd(s, a), LAMBDA b0 :
      IF b0 = a THEN PFail
      ELSE IF Ch(s, a) = "0" THEN NumFraction(s, i, a, a + 1)   \* no leading zero
      ELSE NumFraction(s, i, a, b0)))

\* the number of consecutive backslashes right before position j, counted
\* no further back than position i
RECURSIVE BackslashRun(_, _, _)
BackslashRun(s, i, j) ==
  IF j - 1 >= i /\ Ch(s, j - 1) = "\\" THEN 1 + BackslashRun(s, i, j - 1) ELSE 0

\* whether the character at j, in a literal whose body starts at i, stands
\* for itself: it is not the second character of an escape
Unescaped(s, i, j) == BackslashRun(s, i, j) % 2 = 0

\* the quote that closes the literal whose body starts at i; 0 when none
ClosingQuote(s, i) ==
  FirstPos(i, Len(s), LAMBDA j : Ch(s, j) = "\"" /\ Unescaped(s, i, j))

\* whether the escape that starts at the backslash at b is one of JSON's
ValidEscape(s, b) ==
  \/ Ch(s, b + 1) \in {"\"", "\\", "/", "b", "f", "n", "r", "t"}
  \/ /\ Ch(s, b + 1) = "u"
     /\ \A h \in 2..5 : Ch(s, b + h) \in HexDigits

\* what the escape at the start of body denotes, as [c, n]: the text and the
\* length of the escape
EscapeAt(body) ==
  Let1(Ch(body, 2), LAMBDA e :
    CASE e = "n" -> [c |-> "\n", n |-> 2]
      [] e = "t" -> [c |-> "\t", n |-> 2]
      [] e = "r" -> [c |-> "\r", n |-> 2]
      [] e = "f" -> [c |-> "\f", n |-> 2]
      [] e = "b" -> [c |-> SubSeq(body, 1, 2), n |-> 2]
      [] e = "u" -> [c |-> SubSeq(body, 1, 6), n |-> 6]
      [] OTHER   -> [c |-> e, n |-> 2])

\* the text a literal body denotes: each escape replaced, left to right
RECURSIVE Decode(_)
Decode(body) ==
  Let1(IndexOf(body, "\\"), LAMBDA b :
    IF b = 0 THEN body
    ELSE Let1(EscapeAt(SubSeq(body, b, Len(body))), LAMBDA esc :
           Let1(SubSeq(body, b + esc.n, Len(body)), LAMBDA rest :
             SubSeq(body, 1, b - 1) \o esc.c \o Decode(rest))))

\* the string literal that fills the span a..b (a holds its opening quote)
ParseString(s, a, b) ==
  IF b <= a \/ ClosingQuote(s, a + 1) # b THEN PFail
  ELSE IF \E j \in (a + 1)..(b - 1) : Ch(s, j) \in ControlChars THEN PFail
  ELSE IF \E j \in (a + 1)..(b - 1) : /\ Ch(s, j) = "\\"
                                      /\ Unescaped(s, a + 1, j)
                                      /\ ~ValidEscape(s, j) THEN PFail
  ELSE Let1(SubSeq(s, a + 1, b - 1), LAMBDA body : POk(JStr(Decode(body)), b + 1))

(***************************************************************************)
(* The parser works on spans of the text.  The profile of a text tells,    *)
(* for each position, whether it lies inside a string literal and how many *)
(* brackets are open there; a container is split at the commas of its own  *)
(* level, and each piece must be, as a whole, a value (or a key, a colon   *)
(* and a value).  A text is accepted exactly when the grammar derives it.  *)
(***************************************************************************)
\* the quotes that open or close a literal, the brackets outside literals
ProfileOf(s, quotes) ==
  [quotes |-> quotes,
   open   |-> {j \in 1..Len(s) : /\ Ch(s, j) \in {"{", "["}
                                 /\ Cardinality({q \in quotes : q < j}) % 2 = 0},
   close  |-> {j \in 1..Len(s) : /\ Ch(s, j) \in {"}", "]"}
                                 /\ Cardinality({q \in quotes : q < j}) % 2 = 0}]

Profile(s) ==
  Let1({j \in 1..Len(s) : Ch(s, j) = "\"" /\ Unescaped(s, 1, j)}, LAMBDA quotes :
    ProfileOf(s, quotes))

InLiteral(prof, p) == Cardinality({q \in prof.quotes : q < p}) % 2 = 1

\* the number of brackets open at position p (an opening bracket counted
\* at its own position, a closing one after it)
Depth(prof, p) ==
  Cardinality({o \in prof.open : o <= p}) - Cardinality({c \in prof.close : c < p})

\* the commas of the container whose brackets are at a and b
CommasOf(s, prof, a, b) ==
  {p \in (a + 1)..(b - 1) : /\ Ch(s, p) = ","
                            /\ ~InLiteral(prof, p)
                            /\ Depth(prof, p) = Depth(prof, a)}

\* the k-th position of the set S of positions, in increasing order
Kth(S, k) == CHOOSE p \in S : Cardinality({q \in S : q < p}) = k - 1

\* the k-th piece of the container at a..b whose commas are cs
PieceLo(a, cs, k) == IF k = 1 THEN a + 1 ELSE Kth(cs, k - 1) + 1
PieceHi(b, cs, k) == IF k = Cardinality(cs) + 1 THEN b - 1 ELSE Kth(cs, k) - 1

\* the first and the last position of lo..hi outside white space, 0 if none
FirstInk(s, lo, hi) == FirstPos(lo, hi, LAMBDA j : Ch(s, j) \notin JsonWS)
LastInk(s, lo, hi) == MaxPos({j \in lo..hi : Ch(s, j) \notin JsonWS})

RECURSIVE ParseSpan(_, _, _, _)
RECURSIVE ParseElements(_, _, _, _, _, _, _)
RECURSIVE ParseMembers(_, _, _, _, _, _, _)

\* the results res of the elements of an array, gathered
ArrayOfResults(res, after) ==
  IF \E k \in 1..Len(res) : ~res[k].ok THEN PFail
  ELSE POk(JArr([k \in 1..Len(res) |-> res[k].v]), after)

\* the results of the pieces lo..hi of the array at a..b, in order
ParseElements(s, prof, a, b, cs, lo, hi) ==
  IF lo > hi THEN <<>>
  ELSE IF lo = hi
  THEN <<ParseSpan(s, prof, PieceLo(a, cs, lo), PieceHi(b, cs, lo))>>
  ELSE ParseElements(s, prof, a, b, cs, lo, (lo + hi) \div 2)
         \o ParseElements(s, prof, a, b, cs, (lo + hi) \div 2 + 1, hi)

\* the array whose brackets are at a and b
ParseArray(s, prof, a, b) ==
  IF FirstInk(s, a + 1, b - 1) = 0 THEN POk(JArr(<<>>), b + 1)
  ELSE Let1(CommasOf(s, prof, a, b), LAMBDA cs :
         Let1(ParseElements(s, prof, a, b, cs, 1, Cardinality(cs) + 1), LAMBDA res :
           ArrayOfResults(res, b + 1)))

\* key : value in the span lo..hi, as [ok, key, v]
MemberFail == [ok |-> FALSE, key |-> "", v |-> JUndef]

MemberValue(s, prof, key, q, hi) ==
  Let1(FirstInk(s, q + 1, hi), LAMBDA c :
    IF c = 0 \/ Ch(s, c) # ":" THEN MemberFail
    ELSE Let1(ParseSpan(s, prof, c + 1, hi), LAMBDA val :
           [ok |-> val.ok, key |-> key.v.s, v |-> val.v]))

ParseMember(s, prof, lo, hi) ==
  Let1(FirstInk(s, lo, hi), LAMBDA a :
    IF a = 0 \/ Ch(s, a) # "\"" THEN MemberFail
    ELSE Let1(ClosingQuote(s, a + 1), LAMBDA q :
           IF q = 0 \/ q > hi THEN MemberFail
           ELSE Let1(ParseString(s, a, q), LAMBDA key :
                  IF ~key.ok THEN MemberFail ELSE MemberValue(s, prof, key, q, hi))))

\* the results of the pieces lo..hi of the object at a..b, in order
ParseMembers(s, prof, a, b, cs, lo, hi) ==
  IF lo > hi THEN <<>>
  ELSE IF lo = hi
  THEN <<ParseMember(s, prof, PieceLo(a, cs, lo), PieceHi(b, cs, lo))>>
  ELSE ParseMembers(s, prof, a, b, cs, lo, (lo + hi) \div 2)
         \o ParseMembers(s, prof, a, b, cs, (lo + hi) \div 2 + 1, hi)

\* obj[key] = v for the members res[k], res[k+1], ... in order: a key that
\* comes again replaces the value and keeps its place
RECURSIVE MembersFrom(_, _, _)
MembersFrom(res, k, acc) ==
  IF k > Len(res) THEN acc
  ELSE Let1(PutMember(acc, res[k].key, res[k].v, 1), LAMBDA next :
         MembersFrom(res, k + 1, next))

ObjectOfResults(res, after) ==
  IF \E k \in 1..Len(res) : ~res[k].ok THEN PFail
  ELSE POk(JObj(MembersFrom(res, 1, <<>>)), after)

\* the object whose braces are at a and b
ParseObject(s, prof, a, b) ==
  IF FirstInk(s, a + 1, b - 1) = 0 THEN POk(JObj(<<>>), b + 1)
  ELSE Let1(CommasOf(s, prof, a, b), LAMBDA cs :
         Let1(ParseMembers(s, prof, a, b, cs, 1, Cardinality(cs) + 1), LAMBDA res :
           ObjectOfResults(res, b + 1)))

\* the number that fills the span a..b
NumberIn(s, a, b) ==
  Let1(ParseNumber(s, a), LAMBDA r : IF r.ok /\ r.i = b + 1 THEN r ELSE PFail)

\* the value that fills the span a..b (no white space at a or b)
ValueIn(s, prof, a, b) ==
  Let1(Ch(s, a), LAMBDA c :
    IF c = "{" THEN (IF b > a /\ Ch(s, b) = "}" THEN ParseObject(s, prof, a, b) ELSE PFail)
    ELSE IF c = "[" THEN (IF b > a /\ Ch(s, b) = "]" THEN ParseArray(s, prof, a, b) ELSE PFail)
    ELSE IF c = "\"" THEN ParseString(s, a, b)
    ELSE IF c = "-" \/ c \in Digits THEN NumberIn(s, a, b)
    ELSE IF SubSeq(s, a, b) = "true" THEN POk(JTrue, b + 1)
    ELSE IF SubSeq(s, a, b) = "false" THEN POk(JFalse, b + 1)
    ELSE IF SubSeq(s, a, b) = "null" THEN POk(JNull, b + 1)
    ELSE PFail)

\* the value that, with white space around it, fills the span lo..hi
ParseSpan(s, prof, lo, hi) ==
  Let1(FirstInk(s, lo, hi), LAMBDA a :
    IF a = 0 THEN PFail
    ELSE Let1(LastInk(s, lo, hi), LAMBDA b : ValueIn(s, prof, a, b)))

\* JSON.parse(s): [ok, v]; ok = FALSE is the SyntaxError
JsonParse(s) ==
  Let1(Profile(s), LAMBDA prof :
    Let1(ParseSpan(s, prof, 1, Len(s)), LAMBDA r : [ok |-> r.ok, v |-> r.v]))

(***************************************************************************)
(* String(v), as new Error(...) and string concatenation apply it.         *)
(***************************************************************************)
RECURSIVE NatToStr(_)
NatToStr(n) ==
  IF n < 10 THEN Ch("0123456789", n + 1)
  ELSE NatToStr(n \div 10) \o Ch("0123456789", (n % 10) + 1)

\* the d digits of the fraction f / 10^d
RECURSIVE FracToStr(_, _)
FracToStr(f, d) ==
  IF d = 0 THEN "" ELSE FracToStr(f \div 10, d - 1) \o Ch("0123456789", (f % 10) + 1)

NumToStr(n, d) ==
  Let1(IF n < 0 THEN 0 - n ELSE n, LAMBDA a :
    (IF n < 0 THEN "-" ELSE "")
      \o NatToStr(a \div Pow10(d))
      \o (IF d = 0 THEN "" ELSE "." \o FracToStr(a % Pow10(d), d)))

RECURSIVE JsToString(_)
RECURSIVE JoinFrom(_, _)
\* Array.prototype.join(",") from element i on
JoinFrom(k, i) ==
  IF i > Len(k) THEN ""
  ELSE (IF k[i].t \in {"null", "undefined"} THEN "" ELSE JsToString(k[i]))
       \o (IF i < Len(k) THEN "," ELSE "")
       \o JoinFrom(k, i + 1)

JsToString(v) ==
  CASE v.t = "string" -> v.s
    [] v.t = "number" -> NumToStr(v.n, v.d)
    [] v.t = "array"  -> JoinFrom(v.k, 1)
    [] v.t = "object" -> "[object Object]"
    [] OTHER -> v.t

(***************************************************************************)
(* fallbackExtraction: the five regular expressions, matched as the        *)
(* JavaScript engine matches them (leftmost match, lazy quantifiers,       *)
(* backtracking to a later key when the earlier one does not fit).         *)
(***************************************************************************)
\* the line terminators that "." does not match
LineTerminators == {"\n", "\r"}

RECURSIVE SkipS(_, _)
SkipS(s, i) == IF i <= Len(s) /\ Ch(s, i) \in WS THEN SkipS(s, i + 1) ELSE i

\* "key"\s*:\s* followed by the one character open, matched at position i
\* (q is the quoted key): the position after open, 0 when no match at i
KeyOpenAt(s, q, open, i) ==
  IF ~StartsWithAt(s, q, i) THEN 0
  ELSE Let1(SkipS(s, i + Len(q)), LAMBDA c :
         IF Ch(s, c) # ":" THEN 0
         ELSE Let1(SkipS(s, c + 1), LAMBDA o :
                IF Ch(s, o) = open THEN o + 1 ELSE 0))

\* ((?:[^"\\]|\\.)*?)" from position i: the position of the closing quote,
\* 0 when the text ends first or a backslash meets a line terminator, which
\* "." does not match, before it
EscEnd(s, i) ==
  Let1(ClosingQuote(s, i), LAMBDA q :
    IF q = 0 THEN 0
    ELSE IF \E b \in i..(q - 1) : /\ Ch(s, b) = "\\"
                                  /\ Unescaped(s, i, b)
                                  /\ Ch(s, b + 1) \in LineTerminators THEN 0
    ELSE q)

\* a match, as the code uses it: [found, g1, end]: whether there is one, its
\* first capture group and the position of its last character
NoMatch == [found |-> FALSE, g1 |-> "", end |-> 0]
Match(s, p, e) == [found |-> TRUE, g1 |-> SubSeq(s, p, e - 1), end |-> e]

\* /"title"\s*:\s*"([^"]*?)"/ matched at position i
TitleAt(s, i) ==
  Let1(KeyOpenAt(s, "\"title\"", "\"", i), LAMBDA p :
    IF p = 0 THEN NoMatch
    ELSE Let1(IndexOfFrom(s, "\"", p), LAMBDA e :
           IF e = 0 THEN NoMatch ELSE Match(s, p, e)))

\* /"summary"\s*:\s*"((?:[^"\\]|\\.)*?)"/ matched at position i
SummaryAt(s, i) ==
  Let1(KeyOpenAt(s, "\"summary\"", "\"", i), LAMBDA p :
    IF p = 0 THEN NoMatch
    ELSE Let1(EscEnd(s, p), LAMBDA e :
           IF e = 0 THEN NoMatch ELSE Match(s, p, e)))

\* /"keyPoints"\s*:\s*\[([\s\S]*?)\]/ matched at position i
KeyPointsAt(s, i) ==
  Let1(KeyOpenAt(s, "\"keyPoints\"", "[", i), LAMBDA p :
    IF p = 0 THEN NoMatch
    ELSE Let1(IndexOfFrom(s, "]", p), LAMBDA e :
           IF e = 0 THEN NoMatch ELSE Match(s, p, e)))

\* /"((?:[^"\\]|\\.)*?)"/ matched at position i
QuotedAt(s, i) ==
  IF Ch(s, i) # "\"" THEN NoMatch
  ELSE Let1(EscEnd(s, i + 1), LAMBDA e :
         IF e = 0 THEN NoMatch ELSE Match(s, i + 1, e))

\* the leftmost match from position from on, At(i) being the match at i:
\* the candidate positions are those of a double quote, with which each of
\* the expressions begins
Leftmost(s, from, At(_)) ==
  Let1(FirstPos(from, Len(s), LAMBDA j : Ch(s, j) = "\"" /\ At(j).found), LAMBDA i :
    IF i = 0 THEN NoMatch ELSE At(i))

TitleMatch(s)     == Leftmost(s, 1, LAMBDA i : TitleAt(s, i))
SummaryMatch(s)   == Leftmost(s, 1, LAMBDA i : SummaryAt(s, i))
KeyPointsMatch(s) == Leftmost(s, 1, LAMBDA i : KeyPointsAt(s, i))

\* s.matchAll(/"((?:[^"\\]|\\.)*?)"/g): the captures of the successive
\* matches, searched from position from on
RECURSIVE QuotedAll(_, _)
QuotedAll(s, from) ==
  Let1(Leftmost(s, from, LAMBDA i : QuotedAt(s, i)), LAMBDA m :
    IF ~m.found THEN <<>>
    ELSE Let1(m.end + 1, LAMBDA next : <<JStr(m.g1)>> \o QuotedAll(s, next)))

\* "back"\s*:\s*"(...)" matched at position j
BackAt(s, j) ==
  Let1(KeyOpenAt(s, "\"back\"", "\"", j), LAMBDA p :
    IF p = 0 THEN NoMatch
    ELSE Let1(EscEnd(s, p), LAMBDA e :
           IF e = 0 THEN NoMatch ELSE Match(s, p, e)))

\* "front"\s*:\s*"(...)"[\s\S]*?"back"\s*:\s*"(...)" matched at position i:
\* [found, front, back, end]; the lazy [\s\S]*? lets "back" start at the
\* first place from which the rest matches
FrontBackAt(s, i) ==
  Let1(KeyOpenAt(s, "\"front\"", "\"", i), LAMBDA p :
    IF p = 0 THEN [found |-> FALSE, front |-> "", back |-> "", end |-> 0]
    ELSE Let1(EscEnd(s, p), LAMBDA e :
           IF e = 0 THEN [found |-> FALSE, front |-> "", back |-> "", end |-> 0]
           ELSE Let1(Leftmost(s, e + 1, LAMBDA j : BackAt(s, j)), LAMBDA b :
                  [found |-> b.found, front |-> SubSeq(s, p, e - 1),
                   back |-> b.g1, end |-> b.end])))

\* text.matchAll(/"front"...(...)"[\s\S]*?"back"...(...)"/g), from from on
RECURSIVE FlashcardsAll(_, _)
FlashcardsAll(s, from) ==
  Let1(FirstPos(from, Len(s), LAMBDA j : Ch(s, j) = "\"" /\ FrontBackAt(s, j).found),
       LAMBDA i :
    IF i = 0 THEN <<>>
    ELSE Let1(FrontBackAt(s, i), LAMBDA fb :
           Let1(fb.end + 1, LAMBDA next :
             <<JObj(<<JStr("front"), JStr(fb.front), JStr("back"), JStr(fb.back)>>)>>
               \o FlashcardsAll(s, next))))

\* (.*?)\] from position i: the position of the first "]", 0 when a line
\* terminator or the end of the text comes first
DotEnd(s, i) ==
  Let1(IndexOfFrom(s, "]", i), LAMBDA e :
    IF e = 0 THEN 0
    ELSE IF \E j \in i..(e - 1) : Ch(s, j) \in LineTerminators THEN 0
    ELSE e)

\* "options"\s*:\s*\[(.*?)\] matched at position j
OptionsAt(s, j) ==
  Let1(KeyOpenAt(s, "\"options\"", "[", j), LAMBDA p :
    IF p = 0 THEN NoMatch
    ELSE Let1(DotEnd(s, p), LAMBDA e :
           IF e = 0 THEN NoMatch ELSE Match(s, p, e)))

\* quizBlockRegex matched at position i: [found, question, options, end];
\* [^"]+ needs one character at least, and the lazy [\s\S]*? lets "options"
\* start at the first place from which the rest matches
QuizBlockAt(s, i) ==
  Let1(KeyOpenAt(s, "\"question\"", "\"", i), LAMBDA p :
    IF p = 0 THEN [found |-> FALSE, question |-> "", options |-> "", end |-> 0]
    ELSE Let1(IndexOfFrom(s, "\"", p), LAMBDA e :
           IF e = 0 \/ e = p
           THEN [found |-> FALSE, question |-> "", options |-> "", end |-> 0]
           ELSE Let1(Leftmost(s, e + 1, LAMBDA j : OptionsAt(s, j)), LAMBDA o :
                  [found |-> o.found, question |-> SubSeq(s, p, e - 1),
                   options |-> o.g1, end |-> o.end])))

\* str.split(','): the pieces between the commas (one piece at least)
RECURSIVE Split(_)
Split(s) ==
  Let1(IndexOf(s, ","), LAMBDA j :
    IF j = 0 THEN <<s>>
    ELSE Let1(SubSeq(s, j + 1, Len(s)), LAMBDA rest :
           <<SubSeq(s, 1, j - 1)>> \o Split(rest)))

\* o.replace(/^"|"$/g, ''): one leading and one trailing quote
StripQuotes(o) ==
  Let1(IF Ch(o, 1) = "\"" THEN SubSeq(o, 2, Len(o)) ELSE o, LAMBDA a :
    IF EndsWith(a, "\"") THEN SubSeq(a, 1, Len(a) - 1) ELSE a)

\* o.replace(/\\"/g, '"')
RECURSIVE Unescape(_)
Unescape(o) ==
  Let1(IndexOf(o, "\\\""), LAMBDA j :
    IF j = 0 THEN o
    ELSE Let1(SubSeq(o, j + 2, Len(o)), LAMBDA rest :
           SubSeq(o, 1, j - 1) \o "\"" \o Unescape(rest)))

\* o => o.trim().replace(/^"|"$/g, '').replace(/\\"/g, '"')
MapOption(piece) ==
  Let1(Trim(piece), LAMBDA t :
    Let1(StripQuotes(t), LAMBDA u : JStr(Unescape(u))))

\* options.slice(0, 4) takes MAX_FALLBACK_OPTIONS options at most
MAX_FALLBACK_OPTIONS == 4

\* optionsStr.split(',').map(...) followed by options.slice(0, 4)
\* a variant that keeps all the options
FallbackOptionsAll(optionsStr) ==
  Let1(Split(optionsStr), LAMBDA pieces :
    [i \in 1..Len(pieces) |-> MapOption(pieces[i])])

FallbackOptions(optionsStr) ==
  Let1(Split(optionsStr), LAMBDA pieces :
    [i \in 1..(IF Len(pieces) < MAX_FALLBACK_OPTIONS THEN Len(pieces)
               ELSE MAX_FALLBACK_OPTIONS) |-> MapOption(pieces[i])])

FallbackQuiz(question, optionsStr) ==
  JObj(<<JStr("question"), JStr(question),
         JStr("options"), JArr(FallbackOptions(optionsStr)),
         JStr("correctAnswerIndex"), JInt(0),
         JStr("explanation"), JStr("Explanation unavailable in fallback mode.")>>)

\* text.matchAll(quizBlockRegex): the quizzes of the successive matches
RECURSIVE QuizzesAll(_, _)
QuizzesAll(s, from) ==
  Let1(FirstPos(from, Len(s), LAMBDA j : Ch(s, j) = "\"" /\ QuizBlockAt(s, j).found),
       LAMBDA i :
    IF i = 0 THEN <<>>
    ELSE Let1(QuizBlockAt(s, i), LAMBDA qb :
           Let1(qb.end + 1, LAMBDA next :
             <<FallbackQuiz(qb.question, qb.options)>> \o QuizzesAll(s, next))))

fallbackExtraction(text) ==
  Let1(TitleMatch(text), LAMBDA titleMatch :
    Let1(SummaryMatch(text), LAMBDA summaryMatch :
      Let1(KeyPointsMatch(text), LAMBDA kpMatch :
        Let1(IF kpMatch.found THEN QuotedAll(kpMatch.g1, 1) ELSE <<>>, LAMBDA keyPoints :
          JObj(<<JStr("title"),
                 JStr(IF titleMatch.found THEN titleMatch.g1 ELSE "Untitled Analysis"),
                 JStr("summary"),
                 JStr(IF summaryMatch.found THEN summaryMatch.g1
                      ELSE "Summary unavailable."),
                 JStr("keyPoints"),
                 JArr(IF Len(keyPoints) > 0 THEN keyPoints
                      ELSE <<JStr("Analysis completed partially.")>>),
                 JStr("flashcards"), JArr(FlashcardsAll(text, 1)),
                 JStr("quizzes"), JArr(QuizzesAll(text, 1))>>)))))

(***************************************************************************)
(* One attempt of analyzeLectureContent from the arrival of the response   *)
(* on: the outcome is [ok, data, msg, path].  ok = FALSE is an exception   *)
(* thrown inside the try block, msg its message (the TypeError messages    *)
(* are the engine's; V8's wording is used).  path names the recovery step  *)
(* that produced data.                                                     *)
(***************************************************************************)
Produced(data, path) == [ok |-> TRUE, data |-> data, msg |-> "", path |-> path]
Thrown(msg, path) == [ok |-> FALSE, data |-> JUndef, msg |-> msg, path |-> path]

\* lines 226-230: the repair attempt, and the fallback when it fails too
RecoverRepair(text, cleanedText) ==
  Let1(repairJson(cleanedText), LAMBDA repairedText :
    Let1(JsonParse(repairedText), LAMBDA repaired :
      IF repaired.ok THEN Produced(repaired.v, "repair")
      ELSE Produced(fallbackExtraction(text), "fallback")))

\* lines 219-231: cleanJson, JSON.parse, repairJson + JSON.parse, fallback
Recover(text) ==
  Let1(cleanJson(text), LAMBDA cleanedText :
    Let1(JsonParse(cleanedText), LAMBDA strict :
      IF strict.ok THEN Produced(strict.v, "strict")
      ELSE RecoverRepair(text, cleanedText)))

\* data.title.includes(x) for a truthy title: [ok, hit]; ok = FALSE when
\* title has no method includes (only strings and arrays have one)
TitleIncludes(title, x) ==
  CASE title.t = "string" -> [ok |-> TRUE, hit |-> Includes(title.s, x)]
    [] title.t = "array"  -> [ok |-> TRUE,
                              hit |-> \E i \in 1..Len(title.k) : title.k[i] = JStr(x)]
    [] OTHER -> [ok |-> FALSE, hit |-> FALSE]

\* a variant of the sanitizer that keeps an options array of one entry
SanitizeQuizKeepShort(q) ==
  LET question    == Prop(q, "question")
      options     == Prop(q, "options")
      correct     == Prop(q, "correctAnswerIndex")
      explanation == Prop(q, "explanation")
  IN JObj(<<JStr("question"),
            IF Truthy(question) THEN question ELSE JStr("Untitled Question"),
            JStr("options"),
            IF IsArray(options) /\ Len(options.k) >= 1 THEN options
            ELSE JArr(<<JStr("True"), JStr("False")>>),
            JStr("correctAnswerIndex"),
            IF correct.t = "number" THEN correct ELSE JInt(0),
            JStr("explanation"),
            IF Truthy(explanation) THEN explanation
            ELSE JStr("No explanation provided.")>>)

\* the quiz sanitizer of lines 241-246, for a quiz q whose properties can be read
SanitizeQuiz(q) ==
  LET question    == Prop(q, "question")
      options     == Prop(q, "options")
      correct     == Prop(q, "correctAnswerIndex")
      explanation == Prop(q, "explanation")
  IN JObj(<<JStr("question"),
            IF Truthy(question) THEN question ELSE JStr("Untitled Question"),
            JStr("options"),
            IF IsArray(options) /\ Len(options.k) >= 2 THEN options
            ELSE JArr(<<JStr("True"), JStr("False")>>),
            JStr("correctAnswerIndex"),
            IF correct.t = "number" THEN correct ELSE JInt(0),
            JStr("explanation"),
            IF Truthy(explanation) THEN explanation
            ELSE JStr("No explanation provided.")>>)

\* .filter(q => q.options.length > 0) on the mapped quizzes, from element i on
RECURSIVE FilterNonEmpty(_, _)
FilterNonEmpty(k, i) ==
  IF i > Len(k) THEN <<>>
  ELSE (IF Len(Prop(k[i], "options").k) > 0 THEN <<k[i]>> ELSE <<>>)
       \o FilterNonEmpty(k, i + 1)

\* data.quizzes.map(...).filter(...)
MapQuizzes(quizzes) ==
  Let1([i \in 1..Len(quizzes) |-> SanitizeQuiz(quizzes[i])], LAMBDA mapped :
    FilterNonEmpty(mapped, 1))

\* typeof v
TypeOf(v) ==
  CASE v.t \in {"true", "false"} -> "boolean"
    [] v.t \in {"null", "array"} -> "object"
    [] OTHER -> v.t

\* lines 238-239: the two collections defaulted to [] (data can take them)
DefaultCollections(data) ==
  Let1(IF ~IsArray(Prop(data, "quizzes")) THEN SetProp(data, "quizzes", JArr(<<>>))
       ELSE data, LAMBDA data1 :
    IF ~IsArray(Prop(data1, "flashcards")) THEN SetProp(data1, "flashcards", JArr(<<>>))
    ELSE data1)

\* lines 238-248 on data whose title passed the check of line 233
SanitizeCollections(data, path) ==
  IF ~IsArray(Prop(data, "quizzes")) /\ ~CanWrite(data)
  THEN Thrown("Cannot create property 'quizzes' on " \o TypeOf(data)
                \o " '" \o JsToString(data) \o "'", path)
  ELSE IF ~IsArray(Prop(data, "flashcards")) /\ ~CanWrite(data)
  THEN Thrown("Cannot create property 'flashcards' on " \o TypeOf(data)
                \o " '" \o JsToString(data) \o "'", path)
  ELSE Let1(DefaultCollections(data), LAMBDA data2 :
         Let1(Prop(data2, "quizzes").k, LAMBDA quizzes :
           IF \E i \in 1..Len(quizzes) : ~CanRead(quizzes[i])
           THEN Thrown("Cannot read properties of null (reading 'question')", path)
           ELSE Produced(SetProp(data2, "quizzes", JArr(MapQuizzes(quizzes))), path)))

\* a variant of the condition that looks for 'Error' only
AnnouncesErrorOnly(data) ==
  /\ Truthy(Prop(data, "title"))
  /\ TitleIncludes(Prop(data, "title"), "Error").hit

\* the condition of line 233, for data whose title has a method includes
AnnouncesError(data) ==
  /\ Truthy(Prop(data, "title"))
  /\ \/ TitleIncludes(Prop(data, "title"), "Error").hit
     \/ TitleIncludes(Prop(data, "title"), "Analysis Failed").hit

\* lines 233-248 on the recovered data
Sanitize(data, path) ==
  IF ~CanRead(data)
  THEN Thrown("Cannot read properties of null (reading 'title')", path)
  ELSE IF Truthy(Prop(data, "title")) /\ ~TitleIncludes(Prop(data, "title"), "Error").ok
  THEN Thrown("data.title.includes is not a function", path)
  ELSE IF AnnouncesError(data)
  THEN Thrown(IF Truthy(Prop(data, "summary")) THEN JsToString(Prop(data, "summary"))
              ELSE "Content analysis failed.", path)
  ELSE SanitizeCollections(data, path)

\* lines 217-248: what the attempt does with the response text
Attempt(text) ==
  IF text = "" THEN Thrown("Empty AI response", "none")
  ELSE Let1(Recover(text), LAMBDA r : Sanitize(r.data, r.path))

(***************************************************************************)
(* The responses of the model service: the texts response.text can hold.   *)
(* They are built from quiz objects with every shape of field the          *)
(* sanitizer tells apart, whole, wrapped in fences and prose, and cut      *)
(* short, plus texts that are no JSON object at all.                       *)
(***************************************************************************)
MaxOptions == 5      \* a quiz carries 0..MaxOptions options (or none at all)
MaxIndex   == 6      \* a correctAnswerIndex ranges over -1..MaxIndex
MaxCut     == 9      \* a truncated response misses 1..MaxCut characters
MaxMissing == 3      \* a response misses up to MaxMissing closing brackets

Quoted(s) == "\"" \o s \o "\""
Member(key, val) == Quoted(key) \o ":" \o val

\* the texts of seq joined by commas
RECURSIVE Commas(_)
Commas(seq) ==
  IF Len(seq) = 0 THEN ""
  ELSE IF Len(seq) = 1 THEN seq[1]
  ELSE seq[1] \o "," \o Commas(Tail(seq))

ObjectOf(members) == "{" \o Commas(members) \o "}"
ArrayOf(elements) == "[" \o Commas(elements) \o "]"

\* the options "a", "b", ... of a quiz with n options
OptionTexts(n) == [i \in 1..n |-> Quoted(Ch("abcdefghij", i))]

\* a quiz object: n < 0 leaves the options out, c = "" the index,
\* hasQ = FALSE the question, hasE = FALSE the explanation
QuizText(hasQ, n, c, hasE) ==
  ObjectOf((IF hasQ THEN <<Member("question", Quoted("Q"))>> ELSE <<>>)
        \o (IF n >= 0 THEN <<Member("options", ArrayOf(OptionTexts(n)))>> ELSE <<>>)
        \o (IF c # "" THEN <<Member("correctAnswerIndex", c)>> ELSE <<>>)
        \o (IF hasE THEN <<Member("explanation", Quoted("E"))>> ELSE <<>>))

\* what the response carries as correctAnswerIndex ("" = nothing)
IndexTexts ==
  {"", "null", Quoted("1"), "1.5", "-1"} \cup {NatToStr(i) : i \in 0..MaxIndex}

\* quizzes whose fields are present with a value of another kind
OddQuizTexts ==
  {ObjectOf(<<Member("question", Quoted("")),
              Member("options", Quoted("a,b")),
              Member("explanation", "null")>>),
   ObjectOf(<<Member("question", "0"),
              Member("options", ObjectOf(<<>>)),
              Member("explanation", Quoted(""))>>),
   "null", "7"}

QuizTexts ==
  {QuizText(TRUE, n, "1", TRUE) : n \in (-1)..MaxOptions}
    \cup {QuizText(TRUE, 3, c, TRUE) : c \in IndexTexts}
    \cup {QuizText(hasQ, 2, "0", hasE) : hasQ \in BOOLEAN, hasE \in BOOLEAN}
    \cup OddQuizTexts

BasicQuiz == QuizText(TRUE, 4, "2", TRUE)
BasicCard == ObjectOf(<<Member("front", Quoted("F")), Member("back", Quoted("B"))>>)

\* what the response carries as title and summary ("" = nothing)
TitleTexts ==
  {"",
   Member("title", Quoted("T")),
   Member("title", Quoted("Analysis Failed")) \o "," \o Member("summary", Quoted("No content")),
   Member("title", Quoted("Error")),
   Member("title", "5"),
   Member("title", ArrayOf(<<Quoted("Error")>>)) \o "," \o Member("summary", "[]")}

AnalysisText(title, quizzes) ==
  ObjectOf((IF title # "" THEN <<title>> ELSE <<>>)
        \o <<Member("flashcards", ArrayOf(<<BasicCard>>)),
             Member("quizzes", quizzes)>>)

\* an analysis without nested objects
FlatText ==
  ObjectOf(<<Member("title", Quoted("T")),
             Member("summary", Quoted("S")),
             Member("keyPoints", ArrayOf(<<Quoted("K1"), Quoted("K2")>>))>>)

\* the well-formed analysis objects
ObjectTexts ==
  {AnalysisText(Member("title", Quoted("T")), ArrayOf(<<q>>)) : q \in QuizTexts}
    \cup {AnalysisText(t, ArrayOf(<<BasicQuiz>>)) : t \in TitleTexts}
    \cup {AnalysisText(Member("title", Quoted("T")), q) : q \in {"[]", "5", ArrayOf(<<BasicQuiz, BasicQuiz>>)}}
    \cup {ObjectOf(<<Member("title", Quoted("T")),
                     Member("quizzes", ArrayOf(<<BasicQuiz>>)),
                     Member("keyPoints", ArrayOf(<<Quoted("K")>>))>>),
          ObjectOf(<<Member("title", Quoted("T"))>>),
          FlatText}

\* what the model puts before and after the object
Prefixes == {"", FenceJson \o "\n", Fence \o "\n", "Here is the guide:\n"}
Suffixes == {"", "\n" \o Fence, " Done.", "\nNote: {title} is a guess."}

WrappedBodies ==
  {AnalysisText(Member("title", Quoted("T")), ArrayOf(<<BasicQuiz>>)),
   AnalysisText(Member("title", Quoted("T")), ArrayOf(<<QuizText(TRUE, 5, "1", TRUE)>>)),
   ObjectOf(<<Member("title", Quoted("T"))>>)}

WrappedTexts == {p \o o \o x : p \in Prefixes, o \in WrappedBodies, x \in Suffixes}

\* s without its last k characters
CutEnd(s, k) == SubSeq(s, 1, Len(s) - k)

TruncatedBodies ==
  {AnalysisText(Member("title", Quoted("T")), ArrayOf(<<BasicQuiz>>)),
   AnalysisText("", ArrayOf(<<QuizText(TRUE, 5, "", FALSE)>>)),
   ObjectOf(<<Member("title", Quoted("T")),
              Member("quizzes", ArrayOf(<<BasicQuiz>>)),
              Member("keyPoints", ArrayOf(<<Quoted("K")>>))>>),
   FlatText}

TruncatedTexts == {CutEnd(o, k) : o \in TruncatedBodies, k \in 1..MaxCut}

OtherTexts == {"null", "5", "true", Quoted("text"), "[1,2]", "Sorry, I cannot help."}

\* response.text; "" is the response without text
ResponseTexts == ObjectTexts \cup WrappedTexts \cup TruncatedTexts \cup OtherTexts \cup {""}

\* the messages of the errors generateContent rejects with ("": no message)
RequestErrors == {"Failed to fetch", "400 Bad Request", "503 Overloaded", "SAFETY", ""}

(***************************************************************************)
(* The inputs of the normalization steps taken on their own: a well-formed *)
(* object whole, given without its last missing characters (all of them    *)
(* closing brackets), between the texts pre and post.                      *)
(***************************************************************************)
\* how many closing brackets whole ends with
TrailingClosers(whole) ==
  Len(whole) - MaxPos({j \in 1..Len(whole) : Ch(whole, j) \notin {"}", "]"}})

NormBodies ==
  {AnalysisText(Member("title", Quoted("T")), ArrayOf(<<BasicQuiz>>)),
   ObjectOf(<<Member("title", Quoted("T"))>>),
   ObjectOf(<<Member("a", ObjectOf(<<Member("b", "1")>>)), Member("c", "[1,[2]]")>>),
   ObjectOf(<<Member("summary", Quoted("use " \o Fence \o " fences"))>>)}

NormPrefixes == Prefixes \cup {"For {topic}:\n"}

NormInputs ==
  {[pre |-> p, whole |-> w, missing |-> 0, post |-> x] :
      p \in NormPrefixes, w \in NormBodies, x \in Suffixes}
    \cup {in \in [pre : NormPrefixes, whole : NormBodies, missing : 1..MaxMissing, post : {""}] :
            in.missing <= TrailingClosers(in.whole)}

\* the text the input stands for
TextOf(in) == in.pre \o CutEnd(in.whole, in.missing) \o in.post

(***************************************************************************)
(* Number(v), Math.floor, Math.max and Math.min, as QuizView applies them. *)
(* A number is [kind, n, d]: NaN, an infinity (n its sign) or the finite   *)
(* n / 10^d.                                                               *)
(***************************************************************************)
NaN == [kind |-> "nan", n |-> 0, d |-> 0]
Infinity(sign) == [kind |-> "inf", n |-> sign, d |-> 0]
Finite(n, d) == [kind |-> "fin", n |-> JNum(n, d).n, d |-> JNum(n, d).d]

\* the value of the digits s[i..j-1] in the given radix, continuing from acc
RECURSIVE RadixOf(_, _, _, _, _)
RadixOf(s, i, j, radix, acc) ==
  IF i >= j THEN acc
  ELSE RadixOf(s, i + 1, j, radix,
               radix * acc + (CHOOSE n \in 0..15 :
                                \/ Ch("0123456789abcdef", n + 1) = Ch(s, i)
                                \/ Ch("0123456789ABCDEF", n + 1) = Ch(s, i)))

\* 0x, 0o and 0b literals: the prefix letters p, the digits allowed
RadixLiteral(t, p, digits, radix) ==
  IF /\ Ch(t, 1) = "0"
     /\ Ch(t, 2) \in p
     /\ Len(t) > 2
     /\ \A j \in 3..Len(t) : Ch(t, j) \in digits
  THEN Finite(RadixOf(t, 3, Len(t) + 1, radix, 0), 0)
  ELSE NaN

\* the decimal literal with its digits from a on (the sign before them),
\* integer digits a..b-1, fraction digits up to c-1, and the rest from c
DecimalRest(t, a, b, c) ==
  LET mant == NumOf(t, b + 1, c, NumOf(t, a, b, 0))
      frac == IF c > b THEN c - b - 1 ELSE 0
      e0   == IF Ch(t, c + 1) \in {"+", "-"} THEN c + 2 ELSE c + 1
      e1   == DigitsEnd(t, e0)
      ev   == IF Ch(t, c + 1) = "-" THEN 0 - NumOf(t, e0, e1, 0) ELSE NumOf(t, e0, e1, 0)
      sgn  == IF Ch(t, 1) = "-" THEN 0 - mant ELSE mant
  IN IF ~(b > a \/ c > b + 1) THEN NaN
     ELSE IF c = Len(t) + 1 THEN Finite(sgn, frac)
     ELSE IF Ch(t, c) \in {"e", "E"} /\ e1 > e0 /\ e1 = Len(t) + 1 THEN Finite(sgn, frac - ev)
     ELSE NaN

DecimalLiteral(t) ==
  Let1(IF Ch(t, 1) \in {"+", "-"} THEN 2 ELSE 1, LAMBDA a :
    Let1(DigitsEnd(t, a), LAMBDA b :
      Let1(IF Ch(t, b) = "." THEN DigitsEnd(t, b + 1) ELSE b, LAMBDA c :
        DecimalRest(t, a, b, c))))

\* StringToNumber on the trimmed text t
TrimmedToNumber(t) ==
  IF t = "" THEN Finite(0, 0)
  ELSE IF t \in {"Infinity", "+Infinity"} THEN Infinity(1)
  ELSE IF t = "-Infinity" THEN Infinity(-1)
  ELSE IF Ch(t, 1) = "0" /\ Ch(t, 2) \in {"x", "X"}
  THEN RadixLiteral(t, {"x", "X"}, HexDigits, 16)
  ELSE IF Ch(t, 1) = "0" /\ Ch(t, 2) \in {"o", "O"}
  THEN RadixLiteral(t, {"o", "O"}, {"0", "1", "2", "3", "4", "5", "6", "7"}, 8)
  ELSE IF Ch(t, 1) = "0" /\ Ch(t, 2) \in {"b", "B"}
  THEN RadixLiteral(t, {"b", "B"}, {"0", "1"}, 2)
  ELSE DecimalLiteral(t)

StringToNumber(str) == Let1(Trim(str), LAMBDA t : TrimmedToNumber(t))

\* Number(v)
ToNumber(v) ==
  CASE v.t = "undefined" -> NaN
    [] v.t \in {"null", "false"} -> Finite(0, 0)
    [] v.t = "true" -> Finite(1, 0)
    [] v.t = "number" -> Finite(v.n, v.d)
    [] v.t = "string" -> StringToNumber(v.s)
    [] v.t = "array" -> Let1(JoinFrom(v.k, 1), LAMBDA str : StringToNumber(str))
    [] OTHER -> NaN

\* Math.floor(x) for x not NaN
MathFloor(x) ==
  IF x.kind = "inf" THEN x
  ELSE Finite((x.n - (x.n % Pow10(x.d))) \div Pow10(x.d), 0)

\* Math.max(lo, x) for the integer lo and x an integer or an infinity
MathMax(lo, x) ==
  IF x.kind = "inf" THEN (IF x.n > 0 THEN x ELSE Finite(lo, 0))
  ELSE IF x.n < lo THEN Finite(lo, 0) ELSE x

\* Math.min(x, hi) for the integer hi and x an integer or +Infinity: an integer
MathMin(x, hi) ==
  IF x.kind = "inf" THEN hi ELSE IF x.n > hi THEN hi ELSE x.n

(***************************************************************************)
(* QuizView: the derived values of a render.                               *)
(***************************************************************************)
\* a variant of the filter predicate that asks for one option only
HasOneOption(q) ==
  /\ Truthy(q)
  /\ Truthy(Prop(q, "question"))
  /\ IsArray(Prop(q, "options"))
  /\ Len(Prop(q, "options").k) >= 1

\* the filter predicate of validQuizzes
IsValidQuiz(q) ==
  /\ Truthy(q)
  /\ Truthy(Prop(q, "question"))
  /\ IsArray(Prop(q, "options"))
  /\ Len(Prop(q, "options").k) >= 2

\* k.filter(IsValidQuiz), from element i on
RECURSIVE FilterValid(_, _)
FilterValid(k, i) ==
  IF i > Len(k) THEN <<>>
  ELSE (IF IsValidQuiz(k[i]) THEN <<k[i]>> ELSE <<>>) \o FilterValid(k, i + 1)

\* (quizzes || []).filter(...) for the prop quizzes: an array, or missing
validQuizzes(quizzes) == IF Truthy(quizzes) THEN FilterValid(quizzes.k, 1) ELSE <<>>

\* a variant of the index helper without the upper clamp
FloorOnly(q) ==
  LET raw   == ToNumber(Prop(q, "correctAnswerIndex"))
      index == IF raw.kind = "nan" THEN Finite(0, 0) ELSE MathFloor(raw)
  IN MathMax(0, index).n

getSafeCorrectIndex(q) ==
  LET raw   == ToNumber(Prop(q, "correctAnswerIndex"))
      index == IF raw.kind = "nan" THEN Finite(0, 0) ELSE MathFloor(raw)
  IN MathMin(MathMax(0, index), Len(Prop(q, "options").k) - 1)

\* calculateScore(): the quizzes (indexed from 0) answered with the safe index
calculateScore(valid, selected) ==
  Cardinality({idx \in 0..(Len(valid) - 1) :
                 /\ idx \in DOMAIN selected
                 /\ selected[idx] = getSafeCorrectIndex(valid[idx + 1])})

(***************************************************************************)
(* The quizzes prop of QuizView: quiz values of every shape the filter and *)
(* the index helper tell apart.                                            *)
(***************************************************************************)
QuizValue(question, options, correct) ==
  JObj(<<JStr("question"), question, JStr("options"), options,
         JStr("correctAnswerIndex"), correct, JStr("explanation"), JStr("E")>>)

OptionValues(n) == JArr([i \in 1..n |-> JStr(Ch("abcdefghij", i))])

IndexValues ==
  {JInt(i) : i \in (-1)..MaxIndex}
    \cup {JUndef, JNull, JTrue, JFalse, JStr("2"), JStr("abc"), JStr(""), JStr(" 1 "),
          JStr("0x2"), JStr("1e1"), JStr(".5"), JStr("2."), JStr("1,2"), JStr("Infinity"),
          JStr("-Infinity"), JNum(15, 1), JNum(-5, 1), JNum(-15, 1),
          JArr(<<JInt(2)>>), JArr(<<>>), JArr(<<JInt(1), JInt(2)>>), JObj(<<>>)}

MalformedQuizzes ==
  {JNull, JInt(7), JStr("quiz"),
   QuizValue(JUndef, OptionValues(2), JInt(0)),
   QuizValue(JStr(""), OptionValues(2), JInt(0)),
   QuizValue(JStr("Q"), JStr("ab"), JInt(0)),
   QuizValue(JStr("Q"), JUndef, JInt(0))}

RawQuizzes ==
  {QuizValue(JStr("Q"), OptionValues(n), JInt(1)) : n \in 0..MaxOptions}
    \cup {QuizValue(JStr("Q"), OptionValues(3), c) : c \in IndexValues}
    \cup {QuizValue(JInt(5), OptionValues(2), JInt(0))}
    \cup MalformedQuizzes

\* the quizzes that appear in lists of two and three
ListedQuizzes ==
  {QuizValue(JStr("Q"), OptionValues(2), JInt(1)),
   QuizValue(JStr("R"), OptionValues(3), JInt(7)),
   QuizValue(JStr("S"), OptionValues(1), JInt(0)),
   JNull}

QuizLists ==
  {<<>>} \cup {<<q>> : q \in RawQuizzes}
    \cup {<<a, b>> : a \in ListedQuizzes, b \in ListedQuizzes}
    \cup {<<JNull, QuizValue(JStr("Q"), OptionValues(2), JStr("1")),
            QuizValue(JStr(""), OptionValues(2), JInt(0)),
            QuizValue(JStr("R"), OptionValues(3), JInt(-1))>>}

QuizProps == {JArr(l) : l \in QuizLists} \cup {JUndef, JNull}
(***************************************************************************)
(* App (src/App.tsx): the subjects with their materials, the views, the    *)
(* delete dialog, the move dialog of SubjectDashboard and the submit of    *)
(* FileUpload.  Identifiers are the numbers whose decimal digits the code  *)
(* keeps as strings.  A subject's colour is left out: nothing reads it     *)
(* but the style of its card.                                              *)
(***************************************************************************)
\* null and a value in a place that can hold null
Null == <<>>
Some(x) == <<x>>

\* the null of activeSubjectId and the missing materialId of a confirmation
NoId == 0

\* the list without its element i
RemoveAt(list, i) == SubSeq(list, 1, i - 1) \o SubSeq(list, i + 1, Len(list))

\* useState of line 54
InitialSubjects ==
  <<[id |-> 1, name |-> "Biology 101", materials |-> <<>>],
    [id |-> 2, name |-> "Art History", materials |-> <<>>]>>

\* subjects.find(s => s.id === subjectId): its place, 0 when there is none
FindSubject(list, subjectId) ==
  MinPos({i \in 1..Len(list) : list[i].id = subjectId})

\* materials.find(m => m.id === materialId): its place, 0 when there is none
FindMaterial(materials, materialId) ==
  MinPos({i \in 1..Len(materials) : materials[i].id = materialId})

\* materials.filter(m => m.id !== materialId)
FilterMaterials(materials, materialId) ==
  SelectSeq(materials, LAMBDA m : m.id # materialId)

\* the loop of lines 172-179: the place of the first subject that holds a
\* material with this id, 0 when no subject does
SourceOf(prev, materialId) ==
  MinPos({i \in 1..Len(prev) : FindMaterial(prev[i].materials, materialId) # 0})

\* a variant of the move that gives the material a new title
MoveMaterialRetitled(prev, materialId, targetSubjectId) ==
  LET src == SourceOf(prev, materialId)
  IN IF src = 0 \/ prev[src].id = targetSubjectId THEN prev
     ELSE LET found == prev[src].materials[FindMaterial(prev[src].materials, materialId)]
              sourceSubjectId == prev[src].id
          IN [i \in 1..Len(prev) |->
                IF prev[i].id = sourceSubjectId
                THEN [prev[i] EXCEPT !.materials = FilterMaterials(@, materialId)]
                ELSE IF prev[i].id = targetSubjectId
                THEN [prev[i] EXCEPT !.materials =
                        <<[found EXCEPT !.title = JStr("Moved")]>> \o @]
                ELSE prev[i]]

\* the updater handleMoveMaterial gives to setSubjects (lines 167-202); a
\* subject id is never the empty string, so !sourceSubjectId is false
\* whenever the material is found
MoveMaterial(prev, materialId, targetSubjectId) ==
  LET src == SourceOf(prev, materialId)
  IN IF src = 0 \/ prev[src].id = targetSubjectId THEN prev
     ELSE LET found == prev[src].materials[FindMaterial(prev[src].materials, materialId)]
              sourceSubjectId == prev[src].id
          IN [i \in 1..Len(prev) |->
                IF prev[i].id = sourceSubjectId
                THEN [prev[i] EXCEPT !.materials = FilterMaterials(@, materialId)]
                ELSE IF prev[i].id = targetSubjectId
                THEN [prev[i] EXCEPT !.materials = <<found>> \o @]
                ELSE prev[i]]

\* lines 255-262
NewMaterial(time, type, analysisResult, sourceName) ==
  [id |-> time, title |-> Prop(analysisResult, "title"), type |-> type,
   date |-> time, analysis |-> analysisResult, originalSource |-> sourceName]

\* the updater of lines 264-269
AddMaterial(prev, subjectId, newMaterial) ==
  [i \in 1..Len(prev) |->
     IF prev[i].id = subjectId
     THEN [prev[i] EXCEPT !.materials = <<newMaterial>> \o @]
     ELSE prev[i]]

\* the updaters of executeDelete (lines 142 and 148-156)
DeleteSubject(prev, subjectId) == SelectSeq(prev, LAMBDA s : s.id # subjectId)
DeleteMaterial(prev, subjectId, materialId) ==
  [i \in 1..Len(prev) |->
     IF prev[i].id = subjectId
     THEN [prev[i] EXCEPT !.materials = FilterMaterials(@, materialId)]
     ELSE prev[i]]

\* a variant of the catch block that looks at the message before the network
ErrorMessageLate(onLine, message) ==
  IF message = "AI_CONTENT_ACCESS_ERROR"
  THEN "Content Access Error: The AI could not access the transcript or content of this video. It might be private, age-restricted, or lacking captions."
  ELSE IF message = "AI_JSON_PARSE_ERROR"
  THEN "Analysis Error: The AI response was malformed. Please try a different video or shorter file."
  ELSE IF message # "" /\ Includes(message, "400")
  THEN "Input Error: The file might be corrupted or the format invalid."
  ELSE IF message # "" /\ (Includes(message, "503") \/ Includes(message, "Overloaded"))
  THEN "Server Busy: AI Service is temporarily overloaded. Please try again."
  ELSE IF message # "" /\ Includes(message, "SAFETY")
  THEN "Content Filtered: The lecture content was flagged by safety filters."
  ELSE IF ~onLine
  THEN "Network Error: Please check your internet connection."
  ELSE IF message # "" THEN message
  ELSE "An unexpected error occurred."

\* errorMsg of the catch block (lines 277-294) for navigator.onLine and
\* err.message; "" is a message that is missing or empty
ErrorMessage(onLine, message) ==
  IF ~onLine
  THEN "Network Error: Please check your internet connection."
  ELSE IF message = "AI_CONTENT_ACCESS_ERROR"
  THEN "Content Access Error: The AI could not access the transcript or content of this video. It might be private, age-restricted, or lacking captions."
  ELSE IF message = "AI_JSON_PARSE_ERROR"
  THEN "Analysis Error: The AI response was malformed. Please try a different video or shorter file."
  ELSE IF message # ""
  THEN IF Includes(message, "400")
       THEN "Input Error: The file might be corrupted or the format invalid."
       ELSE IF Includes(message, "503") \/ Includes(message, "Overloaded")
       THEN "Server Busy: AI Service is temporarily overloaded. Please try again."
       ELSE IF Includes(message, "SAFETY")
       THEN "Content Filtered: The lecture content was flagged by safety filters."
       ELSE message
  ELSE "An unexpected error occurred."

\* line 252: the message of the error the last attempt throws
Rethrown(message) == IF message # "" THEN message ELSE "Failed to analyze content"

(***************************************************************************)
(* The bounds of the App model and what its environment can send.          *)
(***************************************************************************)
MaxSubjects == 3
MaxSubmits == 2
MaxTicks == 1
FirstTime == 3

Tabs == {"summary", "flashcards", "quiz", "chat"}
SubjectNames == {"Physics"}

\* what handleInputSubmit is called with: the type and the sourceName
UrlKind == [type |-> "url", source |-> "YouTube Video"]
SubmitKinds == {[type |-> "file", source |-> "lecture.pdf"], UrlKind}

\* response.text of the requests made for the App: an analysis, two
\* answers that announce a failure in title and summary, no text
AppResponseTexts ==
  {AnalysisText(Member("title", Quoted("T")), ArrayOf(<<BasicQuiz>>)),
   AnalysisText(Member("title", Quoted("Analysis Failed")) \o ","
                  \o Member("summary", Quoted("AI_CONTENT_ACCESS_ERROR")),
                ArrayOf(<<BasicQuiz>>)),
   AnalysisText(Member("title", Quoted("Error")) \o ","
                  \o Member("summary", Quoted("AI_JSON_PARSE_ERROR")),
                ArrayOf(<<BasicQuiz>>)),
   ""}

\* what an attempt makes of each of them
AppOutcomes == {Attempt(text) : text \in AppResponseTexts}

\* the messages of the errors the requests made for the App reject with
AppRequestErrors ==
  RequestErrors \cup {"Overloaded", "503 SAFETY", "400 and 503 Overloaded SAFETY"}



(***************************************************************************)
(* analyzeLectureContent as a state machine.  The function runs without    *)
(* interruption between two awaits, so one action takes it from the call   *)
(* to the first request, and one from the settling of a request to the     *)
(* return, the throw or the next request.                                  *)
(***************************************************************************)
\* a variant with one more attempt
ThreeAttempts == 2 + 1

MAX_RETRIES == 2

VARIABLES
  pc,        \* "idle", "awaiting" (a request is awaited), "returned", "thrown"
  attempt,   \* the loop variable of analyzeLectureContent, 0 when idle
  pending,   \* the requests (by attempt number) sent and not yet settled
  issued,    \* how many requests this call has sent
  response,  \* response.text of the last response received
  path,      \* the recovery step that produced the data of the last response
  data,      \* the analysis returned to the caller
  error,     \* the message of the Error thrown to the caller
  failed,    \* the messages of the failed attempts of this call, in order
  stage,     \* how far the normalization of input has got
  input,     \* the text under normalization, in its parts
  cleaned,   \* cleanedText
  mended,    \* what repairJson made of cleanedText
  parsed,    \* the value the normalization produced
  quizzes,   \* the quizzes prop of the mounted QuizView
  selectedAnswers,   \* QuizView state: question index -> chosen option index
  showResults,       \* QuizView state
  user,              \* App state: a user is logged in (null otherwise)
  showLanding,       \* App state
  currentView,       \* App state: "dashboard", "upload", "analysis"
  activeTab,         \* App state: "summary", "flashcards", "quiz", "chat"
  subjects,          \* App state: the list of subjects, each with its materials
  activeSubjectId,   \* App state: a subject id, NoId for null
  currentMaterial,   \* App state: Some(material), Null for null
  isProcessing,      \* App state
  appError,          \* App state error: the message shown, "" for null
  deleteConfirmation,  \* App state: Some(confirmation), Null for null
  materialToMove,    \* SubjectDashboard state: Some(material), Null for null
  now,               \* what Date.now() returns, in ms
  metaPending,       \* FileUpload: the metadata fetches awaited by handleSubmit
  inflight,          \* the handleInputSubmit calls that are awaiting
  onLine,            \* navigator.onLine
  lastCall,          \* history: Some(what the handler of the last step was called
                     \* with and found) after a move or a failed submit, else Null
  answers,           \* what an attempt makes of each text the service can answer
                     \* the App with (the same through a run)
  messages,          \* ChatView state: the messages shown, in order
  chatInput,         \* ChatView state input
  isLoading,         \* ChatView state
  chatRequests,      \* the calls of ChatView's handleSubmit that await the
                     \* service, each with its botMessageId and fullText
  chatNow,           \* what Date.now() returns to ChatView, in ms
  summaryViews,      \* how many times SummaryView was mounted; the last of
                     \* them is the one that is or was on screen
  mounted,           \* the last SummaryView is mounted
  isPlaying,         \* SummaryView state
  isLoadingAudio,    \* SummaryView state
  sourceRef,         \* sourceRef.current: Some(source), Null for null
  speechCalls,       \* the calls of handlePlayAudio that await generateSpeech,
                     \* each the number of the SummaryView it was made in
  sources,           \* how many audio sources were started
  sounding,          \* the audio sources that play
  cardCount,         \* flashcards.length of the mounted FlashcardsView, 0 when
                     \* none is mounted
  currentIndex,      \* FlashcardsView state
  isFlipped,         \* FlashcardsView state
  cardTimers,        \* the callbacks of setTimeout not yet run, in the order
                     \* they were set (all with the same delay)
  cardTurned,        \* history: the last step showed another card
  uploadMounted,     \* FileUpload is on screen, in its mode 'url'
  url,               \* FileUpload state
  isValidUrl,        \* FileUpload state
  isCheckingUrl,     \* FileUpload state
  isFetchingMeta,    \* FileUpload state
  videoId,           \* FileUpload state: the id, "" for null
  videoTitle,        \* FileUpload state: the title, "" for null
  urlTimer,          \* the timeout of the validation effect: Some(the url it
                     \* was set for), Null when none is set
  metaCalls,         \* the calls of FileUpload's handleSubmit that await the
                     \* metadata, each with the url of its render
  lastSubmit         \* history: Some(the arguments of the last call of
                     \* onInputSubmit and navigator.onLine at the call)

analyzerVars == <<pc, attempt, pending, issued, response, path, data, error, failed>>
normVars == <<stage, input, cleaned, mended, parsed>>
quizVars == <<quizzes, selectedAnswers, showResults>>
appVars == <<user, showLanding, currentView, activeTab, subjects, activeSubjectId,
             currentMaterial, isProcessing, appError, deleteConfirmation,
             materialToMove, now, metaPending, inflight, onLine, lastCall,
          answers>>
chatVars == <<messages, chatInput, isLoading, chatRequests, chatNow>>
audioVars == <<summaryViews, mounted, isPlaying, isLoadingAudio, sourceRef, speechCalls,
               sources, sounding>>
cardVars == <<cardCount, currentIndex, isFlipped, cardTimers, cardTurned>>
uploadVars == <<uploadMounted, url, isValidUrl, isCheckingUrl, isFetchingMeta, videoId,
                videoTitle, urlTimer, metaCalls, lastSubmit>>
viewVars == <<chatVars, audioVars, cardVars, uploadVars>>
OutsideUpload == <<analyzerVars, normVars, quizVars, appVars, chatVars, audioVars, cardVars>>
OutsideChat == <<analyzerVars, normVars, quizVars, appVars, audioVars, cardVars, uploadVars>>
OutsideAudio == <<analyzerVars, normVars, quizVars, appVars, chatVars, cardVars, uploadVars>>
OutsideCards == <<analyzerVars, normVars, quizVars, appVars, chatVars, audioVars, uploadVars>>
vars == <<pc, attempt, pending, issued, response, path, data, error, failed,
          stage, input, cleaned, mended, parsed,
          quizzes, selectedAnswers, showResults,
          user, showLanding, currentView, activeTab, subjects, activeSubjectId,
          currentMaterial, isProcessing, appError, deleteConfirmation,
          materialToMove, now, metaPending, inflight, onLine, lastCall,
          answers, viewVars>>

(***************************************************************************)
(* ChatView (src/components/ChatView.tsx), mounted with one context.  A    *)
(* message is its id, role and text; the timestamp is left out: nothing    *)
(* reads it.  An id is 'welcome', 'welcome-' followed by a time, or a time. *)
(***************************************************************************)
MaxMessages == 7
MaxChunks == 2
MaxRequests == 2

ChatId(prefix, time) == [prefix |-> prefix, time |-> time]
ChatMessage(id, role, text) == [id |-> id, role |-> role, text |-> text]

WelcomeText == "I've analyzed the lecture. Ask me anything about the content!"
ClearedText == "Chat cleared. What else would you like to know?"
ApologyText == "I'm having trouble connecting right now. Please try again."

\* what the user types, and chunk.text ("" when the chunk has none)
ChatInputs == {"", " ", "hi"}
ChunkTexts == {"", "a"}

\* lines 14-23: useState of messages, input and isLoading
ChatFresh ==
  /\ messages = <<ChatMessage(ChatId("welcome", 0), "model", WelcomeText)>>
  /\ chatInput = ""
  /\ isLoading = FALSE
  /\ chatRequests = <<>>
  /\ chatNow = FirstTime

(***************************************************************************)
(* SummaryView (src/components/SummaryView.tsx): Read Aloud.  An audio     *)
(* source is the number of the SummaryView that started it and its own     *)
(* number.                                                                 *)
(***************************************************************************)
MaxMounts == 2
MaxSources == 3

\* lines 38-43: useState and useRef of a SummaryView just mounted
SummaryFresh ==
  /\ isPlaying = FALSE
  /\ isLoadingAudio = FALSE
  /\ sourceRef = Null

AudioFresh ==
  /\ summaryViews = 1
  /\ mounted = TRUE
  /\ SummaryFresh
  /\ speechCalls = <<>>
  /\ sources = 0
  /\ sounding = {}

(***************************************************************************)
(* FlashcardsView (src/unnamed/part_001).                                  *)
(***************************************************************************)
MaxCards == 3
MaxTimers == 2

\* no FlashcardsView is mounted
CardsFresh ==
  /\ cardCount = 0
  /\ currentIndex = 0
  /\ isFlipped = FALSE
  /\ cardTimers = <<>>
  /\ cardTurned = FALSE

(***************************************************************************)
(* FileUpload (src/components/FileUpload.tsx) in its mode 'url'.           *)
(* localError is left out: it is shown and nothing else reads it.          *)
(***************************************************************************)
\* lines 17-22: useState of the URL state
UploadFresh ==
  /\ uploadMounted = TRUE
  /\ url = ""
  /\ isValidUrl = FALSE
  /\ isCheckingUrl = FALSE
  /\ isFetchingMeta = FALSE
  /\ videoId = ""
  /\ videoTitle = ""
  /\ urlTimer = Null
  /\ metaCalls = <<>>
  /\ lastSubmit = Null

ViewFresh ==
  /\ ChatFresh
  /\ AudioFresh
  /\ CardsFresh
  /\ UploadFresh

\* no call of analyzeLectureContent is under way
AnalyzerIdle ==
  /\ pc = "idle"
  /\ attempt = 0
  /\ pending = {}
  /\ issued = 0
  /\ response = ""
  /\ path = "none"
  /\ data = JUndef
  /\ error = ""
  /\ failed = <<>>

\* no text is under normalization
NoInput == [pre |-> "", whole |-> "", missing |-> 0, post |-> ""]
NormIdle ==
  /\ stage = "idle"
  /\ input = NoInput
  /\ cleaned = ""
  /\ mended = ""
  /\ parsed = JUndef

\* useState({}) and useState(false)
NoAnswers == [idx \in {} |-> 0]
QuizFresh ==
  /\ selectedAnswers = NoAnswers
  /\ showResults = FALSE

\* the state of App, SubjectDashboard and FileUpload after construction
AppFresh ==
  /\ user = FALSE
  /\ showLanding = TRUE
  /\ currentView = "dashboard"
  /\ activeTab = "summary"
  /\ subjects = InitialSubjects
  /\ activeSubjectId = NoId
  /\ currentMaterial = Null
  /\ isProcessing = FALSE
  /\ appError = ""
  /\ deleteConfirmation = Null
  /\ materialToMove = Null
  /\ now = FirstTime
  /\ metaPending = <<>>
  /\ inflight = <<>>
  /\ onLine = TRUE
  /\ lastCall = Null
  /\ answers = AppOutcomes

Init ==
  /\ AnalyzerIdle
  /\ NormIdle
  /\ quizzes = JUndef
  /\ QuizFresh
  /\ AppFresh
  /\ ViewFresh

\* the caller calls analyzeLectureContent: the loop starts and sends request 1
Call ==
  /\ pc = "idle"
  /\ pc' = "awaiting"
  /\ attempt' = 1
  /\ pending' = {1}
  /\ issued' = 1
  /\ UNCHANGED <<response, path, data, error, failed, normVars, quizVars, appVars, viewVars>>

\* a variant of the catch block that throws on the first failure
CatchNoRetry(msg) ==
  /\ failed' = Append(failed, msg)
  /\ data' = JUndef
  /\ pc' = "thrown"
  /\ error' = (IF msg # "" THEN msg ELSE "Failed to analyze content")
  /\ pending' = pending \ {attempt}
  /\ UNCHANGED <<attempt, issued>>

\* the catch block of lines 250-253 for an exception with message msg: go
\* round the loop and send the next request, but throw on the last attempt
Catch(msg) ==
  /\ failed' = Append(failed, msg)
  /\ data' = JUndef
  /\ IF attempt = MAX_RETRIES
     THEN /\ pc' = "thrown"
          /\ error' = (IF msg # "" THEN msg ELSE "Failed to analyze content")
          /\ pending' = pending \ {attempt}
          /\ UNCHANGED <<attempt, issued>>
     ELSE /\ pc' = "awaiting"
          /\ attempt' = attempt + 1
          /\ pending' = (pending \ {attempt}) \cup {attempt + 1}
          /\ issued' = issued + 1
          /\ UNCHANGED error

\* the awaited request resolves with a response whose text is text
Resolve(text) ==
  /\ pc = "awaiting"
  /\ attempt \in pending
  /\ response' = text
  /\ \E r \in {Attempt(text)} :
        /\ path' = r.path
        /\ IF r.ok
           THEN /\ pc' = "returned"
                /\ data' = r.data
                /\ pending' = pending \ {attempt}
                /\ UNCHANGED <<attempt, issued, error, failed>>
           ELSE Catch(r.msg)
  /\ UNCHANGED <<normVars, quizVars, appVars, viewVars>>

\* the awaited request rejects with an error whose message is msg
Reject(msg) ==
  /\ pc = "awaiting"
  /\ attempt \in pending
  /\ Catch(msg)
  /\ UNCHANGED <<response, path, normVars, quizVars, appVars, viewVars>>

\* the caller has taken the result or the error; the next call starts afresh
Settle ==
  /\ pc \in {"returned", "thrown"}
  /\ pc' = "idle"
  /\ attempt' = 0
  /\ pending' = {}
  /\ issued' = 0
  /\ response' = ""
  /\ path' = "none"
  /\ data' = JUndef
  /\ error' = ""
  /\ failed' = <<>>
  /\ UNCHANGED <<normVars, quizVars, appVars, viewVars>>

Next ==
  \/ Call
  \/ \E text \in ResponseTexts : Resolve(text)
  \/ \E msg \in RequestErrors : Reject(msg)
  \/ Settle

Spec == Init /\ [][Next]_vars

(***************************************************************************)
(* The normalization steps of lines 219-231 one by one, on a text whose    *)
(* parts are known.                                                        *)
(***************************************************************************)
\* response.text arrives
Receive(in) ==
  /\ stage = "idle"
  /\ stage' = "received"
  /\ input' = in
  /\ UNCHANGED <<cleaned, mended, parsed, analyzerVars, quizVars, appVars, viewVars>>

\* line 219
CleanStep ==
  /\ stage = "received"
  /\ stage' = "cleaned"
  /\ cleaned' = cleanJson(TextOf(input))
  /\ UNCHANGED <<input, mended, parsed, analyzerVars, quizVars, appVars, viewVars>>

\* line 223
StrictStep ==
  /\ stage = "cleaned"
  /\ \E r \in {JsonParse(cleaned)} :
        /\ stage' = (IF r.ok THEN "parsed" ELSE "strictFailed")
        /\ parsed' = r.v
  /\ UNCHANGED <<input, cleaned, mended, analyzerVars, quizVars, appVars, viewVars>>

\* a variant that repairs the cleaned text without a strict parse of it
\* having failed
RepairStepFirst ==
  /\ stage \in {"cleaned", "strictFailed"}
  /\ \E text \in {repairJson(cleaned)} :
        /\ mended' = text
        /\ \E r \in {JsonParse(text)} :
              /\ stage' = (IF r.ok THEN "repaired" ELSE "repairFailed")
              /\ parsed' = r.v
  /\ UNCHANGED <<input, cleaned, analyzerVars, quizVars, appVars, viewVars>>

\* lines 227-228
RepairStep ==
  /\ stage = "strictFailed"
  /\ \E text \in {repairJson(cleaned)} :
        /\ mended' = text
        /\ \E r \in {JsonParse(text)} :
              /\ stage' = (IF r.ok THEN "repaired" ELSE "repairFailed")
              /\ parsed' = r.v
  /\ UNCHANGED <<input, cleaned, analyzerVars, quizVars, appVars, viewVars>>

\* line 230
FallbackStep ==
  /\ stage = "repairFailed"
  /\ stage' = "extracted"
  /\ parsed' = fallbackExtraction(TextOf(input))
  /\ UNCHANGED <<input, cleaned, mended, analyzerVars, quizVars, appVars, viewVars>>

\* the data goes on to the sanitizer; the next text can arrive
Discard ==
  /\ stage \in {"parsed", "repaired", "extracted"}
  /\ stage' = "idle"
  /\ input' = NoInput
  /\ cleaned' = ""
  /\ mended' = ""
  /\ parsed' = JUndef
  /\ UNCHANGED <<analyzerVars, quizVars, appVars, viewVars>>

InitNormalize == Init

NextNormalize ==
  \/ \E in \in NormInputs : Receive(in)
  \/ CleanStep
  \/ StrictStep
  \/ RepairStep
  \/ FallbackStep
  \/ Discard

SpecNormalize == InitNormalize /\ [][NextNormalize]_vars

(***************************************************************************)
(* QuizView: the component mounted with a quizzes prop.                    *)
(***************************************************************************)
InitQuiz ==
  /\ AnalyzerIdle
  /\ NormIdle
  /\ quizzes \in QuizProps
  /\ QuizFresh
  /\ AppFresh
  /\ ViewFresh

\* a variant of handleSelect without the test of line 45
handleSelectAlways(qIdx, oIdx) ==
  /\ qIdx \in 0..(Len(validQuizzes(quizzes)) - 1)
  /\ oIdx \in 0..(Len(Prop(validQuizzes(quizzes)[qIdx + 1], "options").k) - 1)
  /\ selectedAnswers' = [idx \in DOMAIN selectedAnswers \cup {qIdx} |->
                           IF idx = qIdx THEN oIdx ELSE selectedAnswers[idx]]
  /\ UNCHANGED <<quizzes, showResults, analyzerVars, normVars, appVars, viewVars>>

\* an option button of question qIdx is clicked (the buttons are rendered
\* when there is a valid quiz, and disabled once the results show)
handleSelect(qIdx, oIdx) ==
  /\ qIdx \in 0..(Len(validQuizzes(quizzes)) - 1)
  /\ oIdx \in 0..(Len(Prop(validQuizzes(quizzes)[qIdx + 1], "options").k) - 1)
  /\ ~showResults
  /\ selectedAnswers' = [idx \in DOMAIN selectedAnswers \cup {qIdx} |->
                           IF idx = qIdx THEN oIdx ELSE selectedAnswers[idx]]
  /\ UNCHANGED <<quizzes, showResults, analyzerVars, normVars, appVars, viewVars>>

\* the Complete Quiz button: rendered while the results do not show,
\* disabled until every valid quiz has an answer
CompleteQuiz ==
  /\ Len(validQuizzes(quizzes)) > 0
  /\ ~showResults
  /\ ~(Cardinality(DOMAIN selectedAnswers) < Len(validQuizzes(quizzes)))
  /\ showResults' = TRUE
  /\ UNCHANGED <<quizzes, selectedAnswers, analyzerVars, normVars, appVars, viewVars>>

\* the Retry button, rendered with the results
handleRetry ==
  /\ Len(validQuizzes(quizzes)) > 0
  /\ showResults
  /\ selectedAnswers' = NoAnswers
  /\ showResults' = FALSE
  /\ UNCHANGED <<quizzes, analyzerVars, normVars, appVars, viewVars>>

NextQuiz ==
  \/ \E qIdx \in 0..(Len(validQuizzes(quizzes)) - 1), oIdx \in 0..MaxOptions :
        handleSelect(qIdx, oIdx)
  \/ CompleteQuiz
  \/ handleRetry

SpecQuiz == InitQuiz /\ [][NextQuiz]_vars

(***************************************************************************)
(* Properties of analyzeLectureContent (specification Spec).               *)
(***************************************************************************)
\* the quizzes of the analysis returned to the caller
ReturnedQuizzes == Prop(data, "quizzes").k

\* the quizzes the recovery step handed to the sanitizer
RecoveredQuizzes ==
  LET raw == Prop(Recover(response).data, "quizzes")
  IN IF IsArray(raw) THEN raw.k ELSE <<>>

\* C1: every non-empty response text is normalized into an analysis without
\* an exception being raised (a response whose title announces an error,
\* which line 233 rejects on purpose, set aside).
C1_NeverThrows ==
  response # "" =>
    \/ Attempt(response).ok
    \/ \E r \in {Recover(response)} :
          /\ CanRead(r.data)
          /\ TitleIncludes(Prop(r.data, "title"), "Error").ok
          /\ AnnouncesError(r.data)

\* the first attempt ended in a TypeError on a response whose quizzes array
\* holds null, and the second request went out
C1_Failure ==
  /\ pc = "awaiting"
  /\ attempt = 2
  /\ path = "strict"
  /\ response = AnalysisText(Member("title", Quoted("T")), ArrayOf(<<"null">>))
  /\ failed = <<"Cannot read properties of null (reading 'question')">>

\* C4: one call sends at most 2 requests, one at a time: while request
\* number attempt is awaited it is the only one pending, it is the
\* attempt-th request sent, and each of the attempt - 1 earlier attempts has
\* ended in a failure.
C4_AtMostTwoSequential ==
  /\ issued <= 2
  /\ Cardinality(pending) <= 1
  /\ pc = "awaiting" => /\ pending = {attempt}
                        /\ issued = attempt
                        /\ Len(failed) = attempt - 1
  /\ pc \in {"returned", "thrown"} => pending = {}

\* a second request is awaited after the first attempt failed
C4_Witness ==
  /\ pc = "awaiting"
  /\ attempt = 2
  /\ issued = 2
  /\ pending = {2}
  /\ Len(failed) = 1

\* C5: the call returns the analysis of the first attempt that succeeds
\* (every earlier attempt failed) and sends no request after it; it throws
\* only when both attempts failed, with the message of the second failure,
\* or 'Failed to analyze content' when that failure has no message.
C5_FirstSuccessOrLastError ==
  /\ [](pc = "returned" => /\ \A r \in {Attempt(response)} : r.ok /\ data = r.data
                           /\ Len(failed) = attempt - 1
                           /\ issued = attempt
                           /\ pending = {})
  /\ [](pc = "thrown" => /\ attempt = 2
                         /\ issued = 2
                         /\ Len(failed) = 2
                         /\ error = (IF failed[2] # "" THEN failed[2]
                                     ELSE "Failed to analyze content"))
  /\ [][(pc \in {"returned", "thrown"}) => (issued' = 0 /\ pending' = {})]_vars

\* both attempts failed, the second without a message
C5_Witness ==
  /\ pc = "thrown"
  /\ Len(failed) = 2
  /\ failed[1] # ""
  /\ failed[2] = ""
  /\ error = "Failed to analyze content"

\* C6: every quiz of a returned analysis has a correctAnswerIndex that is an
\* integer from 0 to options.length - 1.
C6_IndexClamped ==
  pc = "returned" =>
    \A i \in 1..Len(ReturnedQuizzes) :
      LET c == Prop(ReturnedQuizzes[i], "correctAnswerIndex")
      IN /\ c.t = "number"
         /\ c.d = 0
         /\ 0 <= c.n
         /\ c.n <= Len(Prop(ReturnedQuizzes[i], "options").k) - 1

\* an analysis was returned whose quiz has three options and index 5
C6_Failure ==
  /\ pc = "returned"
  /\ Len(ReturnedQuizzes) = 1
  /\ Len(Prop(ReturnedQuizzes[1], "options").k) = 3
  /\ Prop(ReturnedQuizzes[1], "correctAnswerIndex") = JInt(5)

C10_TwoToFourOptions ==
  pc = "returned" =>
    \A i \in 1..Len(ReturnedQuizzes) :
      /\ 2 <= Len(Prop(ReturnedQuizzes[i], "options").k)
      /\ Len(Prop(ReturnedQuizzes[i], "options").k) <= 4

\* an analysis parsed as it came was returned with a quiz of five options
C10_Failure ==
  /\ pc = "returned"
  /\ path = "strict"
  /\ Len(ReturnedQuizzes) = 1
  /\ Len(Prop(ReturnedQuizzes[1], "options").k) = 5

(***************************************************************************)
(* Properties of the normalization steps (specification SpecNormalize).    *)
(***************************************************************************)
\* C2 as stated: a well-formed object, inside code fences or followed by
\* prose, is what cleanJson returns, and the strict parse yields its value.
C2_ExtractsAnyObject ==
  (input.missing = 0 /\ stage \notin {"idle", "received"}) =>
    /\ cleaned = input.whole
    /\ stage # "cleaned" => (stage = "parsed" /\ parsed = JsonParse(input.whole).v)

\* C2, narrowed: a well-formed object is what cleanJson returns, and the
\* strict parse yields its value, when no "{" comes before the object, no
\* "}" comes after it and the object holds no fence marker.
C2_ExtractsObject ==
  (/\ input.missing = 0
   /\ stage \notin {"idle", "received"}
   /\ ~Includes(input.pre, "{")
   /\ ~Includes(input.post, "}")
   /\ ~Includes(input.whole, Fence)) =>
    /\ cleaned = input.whole
    /\ stage # "cleaned" => (stage = "parsed" /\ parsed = JsonParse(input.whole).v)

\* an object between a json fence and a closing fence was parsed
C2_Witness ==
  /\ stage = "parsed"
  /\ input.pre = FenceJson \o "\n"
  /\ input.post = "\n" \o Fence
  /\ Len(Prop(parsed, "quizzes").k) = 1
  /\ cleaned = input.whole

\* C3: for a well-formed object given without some of its closing brackets,
\* and nothing else around it, the repair step succeeds and its value is
\* the value of the well-formed object.
C3_RepairRestores ==
  (/\ input.missing > 0
   /\ input.pre = ""
   /\ input.post = ""
   /\ stage \in {"repaired", "repairFailed", "extracted"}) =>
    /\ stage = "repaired"
    /\ parsed = JsonParse(input.whole).v

\* the object {"a":{"b":1},"c":[1,[2]]} without its last brace was cut by
\* cleanJson after the inner brace, and the repair lost the member "c"
C3_Failure ==
  /\ stage = "repaired"
  /\ input.pre = ""
  /\ input.post = ""
  /\ input.missing = 1
  /\ cleaned = "{\"a\":{\"b\":1}"
  /\ mended = "{\"a\":{\"b\":1}}"
  /\ Prop(parsed, "c") = JUndef
  /\ Prop(JsonParse(input.whole).v, "c") # JUndef

(***************************************************************************)
(* Properties of QuizView (specification SpecQuiz).                        *)
(***************************************************************************)
\* C7: for every validated quiz the index used for scoring is an integer
\* from 0 to options.length - 1: 0 when correctAnswerIndex does not convert
\* to a number or is below 0, the last index when it is above the last
\* index.
C7_SafeIndexInRange ==
  \A i \in 1..Len(validQuizzes(quizzes)) :
    LET q    == validQuizzes(quizzes)[i]
        last == Len(Prop(q, "options").k) - 1
        raw  == ToNumber(Prop(q, "correctAnswerIndex"))
    IN /\ getSafeCorrectIndex(q) \in 0..last
       /\ raw.kind = "nan" => getSafeCorrectIndex(q) = 0
       /\ (raw.kind # "nan" /\ raw.n < 0) => getSafeCorrectIndex(q) = 0
       /\ (raw.kind = "inf" /\ raw.n > 0) => getSafeCorrectIndex(q) = last
       /\ (raw.kind = "fin" /\ raw.n > last * Pow10(raw.d)) => getSafeCorrectIndex(q) = last

\* a quiz of three options whose index is 7 is scored with index 2
C7_Witness ==
  /\ showResults
  /\ Len(validQuizzes(quizzes)) = 2
  /\ Prop(validQuizzes(quizzes)[2], "correctAnswerIndex") = JInt(7)
  /\ getSafeCorrectIndex(validQuizzes(quizzes)[2]) = 2
  /\ selectedAnswers[1] = 2
  /\ calculateScore(validQuizzes(quizzes), selectedAnswers) >= 1

\* the places, in the quizzes prop, of the quizzes with a question and an
\* options array of 2 entries or more
KeptPlaces ==
  IF quizzes.t # "array" THEN {}
  ELSE {i \in 1..Len(quizzes.k) :
          /\ quizzes.k[i].t = "object"
          /\ Prop(quizzes.k[i], "question") \notin {JUndef, JNull, JStr("")}
          /\ Prop(quizzes.k[i], "options").t = "array"
          /\ Len(Prop(quizzes.k[i], "options").k) >= 2}

\* C8: validQuizzes holds exactly the quizzes with a non-empty question and
\* an options array of 2 entries or more, in the order of the prop.
C8_ValidQuizzesExact ==
  /\ Len(validQuizzes(quizzes)) = Cardinality(KeptPlaces)
  /\ \A n \in 1..Cardinality(KeptPlaces) :
       validQuizzes(quizzes)[n] = quizzes.k[Kth(KeptPlaces, n)]

\* of four quizzes the second and the fourth are kept, in that order
C8_Witness ==
  /\ quizzes.t = "array"
  /\ Len(quizzes.k) = 4
  /\ KeptPlaces = {2, 4}
  /\ validQuizzes(quizzes) = <<quizzes.k[2], quizzes.k[4]>>
  /\ Cardinality(DOMAIN selectedAnswers) = 2
(***************************************************************************)
(* What is on screen.                                                      *)
(***************************************************************************)
\* lines 312 and 327: neither the landing pages nor the processing screen
MainShown(u, processing) == u /\ ~processing
\* line 481
DashboardShown(u, processing, view) == MainShown(u, processing) /\ view = "dashboard"
\* the delete dialog (lines 643-651) and the move dialog (part_000 lines
\* 278-284) cover the page: what lies under them takes no click
NoDialog == deleteConfirmation = Null /\ materialToMove = Null

\* SubjectDashboard's activeSubject (part_000 line 37): its place in subjects
ActiveSubject == FindSubject(subjects, activeSubjectId)

\* the state of SubjectDashboard lives as long as the component is mounted
KeepMove ==
  materialToMove' =
    IF DashboardShown(user', isProcessing', currentView') THEN materialToMove ELSE Null

\* the materials of all subjects, and how many submits the run has room for
RECURSIVE MaterialCount(_)
MaterialCount(list) ==
  IF list = <<>> THEN 0
  ELSE Len(list[1].materials) + MaterialCount(Tail(list))

(***************************************************************************)
(* The handlers of App.  Each one runs to its end before the next event.   *)
(***************************************************************************)
\* GettingStartedView's button (line 318)
onGetStarted ==
  /\ ~user /\ showLanding
  /\ showLanding' = FALSE
  /\ UNCHANGED <<user, currentView, activeTab, subjects, activeSubjectId, currentMaterial,
                 isProcessing, appError, deleteConfirmation, now, metaPending, inflight>>
  /\ KeepMove
  /\ lastCall' = Null
  /\ UNCHANGED <<analyzerVars, normVars, quizVars, viewVars, onLine, answers>>

\* AuthView logs a user in (line 320)
onLogin ==
  /\ ~user /\ ~showLanding
  /\ user' = TRUE
  /\ UNCHANGED <<showLanding, currentView, activeTab, subjects, activeSubjectId,
                 currentMaterial, isProcessing, appError, deleteConfirmation, now,
                 metaPending, inflight>>
  /\ KeepMove
  /\ lastCall' = Null
  /\ UNCHANGED <<analyzerVars, normVars, quizVars, viewVars, onLine, answers>>

\* lines 302-308
handleLogout ==
  /\ MainShown(user, isProcessing) /\ NoDialog
  /\ user' = FALSE
  /\ currentView' = "dashboard"
  /\ activeSubjectId' = NoId
  /\ currentMaterial' = Null
  /\ showLanding' = TRUE
  /\ UNCHANGED <<activeTab, subjects, isProcessing, appError, deleteConfirmation, now,
                 metaPending, inflight>>
  /\ KeepMove
  /\ lastCall' = Null
  /\ UNCHANGED <<analyzerVars, normVars, quizVars, viewVars, onLine, answers>>

\* the logo of the header (lines 454-457)
GoHome ==
  /\ MainShown(user, isProcessing) /\ NoDialog
  /\ currentView' = "dashboard"
  /\ activeSubjectId' = NoId
  /\ UNCHANGED <<user, showLanding, activeTab, subjects, currentMaterial, isProcessing,
                 appError, deleteConfirmation, now, metaPending, inflight>>
  /\ KeepMove
  /\ lastCall' = Null
  /\ UNCHANGED <<analyzerVars, normVars, quizVars, viewVars, onLine, answers>>

\* the back buttons of the upload and the analysis view (lines 511, 564)
BackToSubject ==
  /\ MainShown(user, isProcessing) /\ NoDialog
  /\ \/ currentView = "upload" /\ activeSubjectId # NoId
     \/ currentView = "analysis" /\ currentMaterial # Null
  /\ currentView' = "dashboard"
  /\ UNCHANGED <<user, showLanding, activeTab, subjects, activeSubjectId, currentMaterial,
                 isProcessing, appError, deleteConfirmation, now, metaPending, inflight>>
  /\ KeepMove
  /\ lastCall' = Null
  /\ UNCHANGED <<analyzerVars, normVars, quizVars, viewVars, onLine, answers>>

\* a tab of the analysis view (line 590)
setActiveTab(tab) ==
  /\ MainShown(user, isProcessing) /\ NoDialog
  /\ currentView = "analysis" /\ currentMaterial # Null
  /\ activeTab' = tab
  /\ UNCHANGED <<user, showLanding, currentView, subjects, activeSubjectId, currentMaterial,
                 isProcessing, appError, deleteConfirmation, now, metaPending, inflight>>
  /\ KeepMove
  /\ lastCall' = Null
  /\ UNCHANGED <<analyzerVars, normVars, quizVars, viewVars, onLine, answers>>

\* the button that dismisses the error of the upload view (line 543)
DismissError ==
  /\ MainShown(user, isProcessing) /\ NoDialog
  /\ currentView = "upload" /\ activeSubjectId # NoId
  /\ appError # ""
  /\ appError' = ""
  /\ UNCHANGED <<user, showLanding, currentView, activeTab, subjects, activeSubjectId,
                 currentMaterial, isProcessing, deleteConfirmation, now, metaPending,
                 inflight>>
  /\ KeepMove
  /\ lastCall' = Null
  /\ UNCHANGED <<analyzerVars, normVars, quizVars, viewVars, onLine, answers>>

\* handleCreateSubmit of the folder list with a name that is not blank
\* (part_000 lines 39-46) calls handleCreateSubject (lines 101-109)
handleCreateSubject(name) ==
  /\ DashboardShown(user, isProcessing, currentView) /\ NoDialog
  /\ ActiveSubject = 0
  /\ Len(subjects) < MaxSubjects
  /\ subjects' = Append(subjects, [id |-> now, name |-> name, materials |-> <<>>])
  /\ UNCHANGED <<user, showLanding, currentView, activeTab, activeSubjectId,
                 currentMaterial, isProcessing, appError, deleteConfirmation, now,
                 metaPending, inflight>>
  /\ KeepMove
  /\ lastCall' = Null
  /\ UNCHANGED <<analyzerVars, normVars, quizVars, viewVars, onLine, answers>>

\* a card of the folder list (line 485)
onSelectSubject(i) ==
  /\ DashboardShown(user, isProcessing, currentView) /\ NoDialog
  /\ ActiveSubject = 0
  /\ i \in 1..Len(subjects)
  /\ activeSubjectId' = subjects[i].id
  /\ UNCHANGED <<user, showLanding, currentView, activeTab, subjects, currentMaterial,
                 isProcessing, appError, deleteConfirmation, now, metaPending, inflight>>
  /\ KeepMove
  /\ lastCall' = Null
  /\ UNCHANGED <<analyzerVars, normVars, quizVars, viewVars, onLine, answers>>

\* the back button of the subject view (line 490)
onBackToDashboard ==
  /\ DashboardShown(user, isProcessing, currentView) /\ NoDialog
  /\ ActiveSubject # 0
  /\ activeSubjectId' = NoId
  /\ UNCHANGED <<user, showLanding, currentView, activeTab, subjects, currentMaterial,
                 isProcessing, appError, deleteConfirmation, now, metaPending, inflight>>
  /\ KeepMove
  /\ lastCall' = Null
  /\ UNCHANGED <<analyzerVars, normVars, quizVars, viewVars, onLine, answers>>

\* Add Material of the subject view (lines 491-494)
onNewAnalysis ==
  /\ DashboardShown(user, isProcessing, currentView) /\ NoDialog
  /\ ActiveSubject # 0
  /\ activeSubjectId' = subjects[ActiveSubject].id
  /\ currentView' = "upload"
  /\ UNCHANGED <<user, showLanding, activeTab, subjects, currentMaterial, isProcessing,
                 appError, deleteConfirmation, now, metaPending, inflight>>
  /\ KeepMove
  /\ lastCall' = Null
  /\ UNCHANGED <<analyzerVars, normVars, quizVars, viewVars, onLine, answers>>

\* a material of the subject view (lines 495-499)
onSelectMaterial(j) ==
  /\ DashboardShown(user, isProcessing, currentView) /\ NoDialog
  /\ ActiveSubject # 0
  /\ j \in 1..Len(subjects[ActiveSubject].materials)
  /\ currentMaterial' = Some(subjects[ActiveSubject].materials[j])
  /\ currentView' = "analysis"
  /\ activeTab' = "summary"
  /\ UNCHANGED <<user, showLanding, subjects, activeSubjectId, isProcessing, appError,
                 deleteConfirmation, now, metaPending, inflight>>
  /\ KeepMove
  /\ lastCall' = Null
  /\ UNCHANGED <<analyzerVars, normVars, quizVars, viewVars, onLine, answers>>

\* the delete button of a subject card (lines 112-121)
handleDeleteSubject(i) ==
  /\ DashboardShown(user, isProcessing, currentView) /\ NoDialog
  /\ ActiveSubject = 0
  /\ i \in 1..Len(subjects)
  /\ deleteConfirmation' =
       Some([type |-> "subject", subjectId |-> subjects[i].id, materialId |-> NoId,
             title |-> JStr(subjects[FindSubject(subjects, subjects[i].id)].name)])
  /\ UNCHANGED <<user, showLanding, currentView, activeTab, subjects, activeSubjectId,
                 currentMaterial, isProcessing, appError, now, metaPending, inflight>>
  /\ KeepMove
  /\ lastCall' = Null
  /\ UNCHANGED <<analyzerVars, normVars, quizVars, viewVars, onLine, answers>>

\* the delete button of a material of the subject view (lines 124-135)
handleDeleteMaterial(j) ==
  /\ DashboardShown(user, isProcessing, currentView) /\ NoDialog
  /\ ActiveSubject # 0
  /\ j \in 1..Len(subjects[ActiveSubject].materials)
  /\ LET materials == subjects[ActiveSubject].materials
         materialId == materials[j].id
     IN deleteConfirmation' =
          Some([type |-> "material", subjectId |-> subjects[ActiveSubject].id,
                materialId |-> materialId,
                title |-> materials[FindMaterial(materials, materialId)].title])
  /\ UNCHANGED <<user, showLanding, currentView, activeTab, subjects, activeSubjectId,
                 currentMaterial, isProcessing, appError, now, metaPending, inflight>>
  /\ KeepMove
  /\ lastCall' = Null
  /\ UNCHANGED <<analyzerVars, normVars, quizVars, viewVars, onLine, answers>>

\* Cancel and the backdrop of the delete dialog (lines 650, 670)
CancelDelete ==
  /\ MainShown(user, isProcessing)
  /\ deleteConfirmation # Null
  /\ deleteConfirmation' = Null
  /\ UNCHANGED <<user, showLanding, currentView, activeTab, subjects, activeSubjectId,
                 currentMaterial, isProcessing, appError, now, metaPending, inflight>>
  /\ KeepMove
  /\ lastCall' = Null
  /\ UNCHANGED <<analyzerVars, normVars, quizVars, viewVars, onLine, answers>>

\* Delete of the delete dialog (lines 138-164)
executeDelete ==
  /\ MainShown(user, isProcessing)
  /\ deleteConfirmation # Null
  /\ LET c == deleteConfirmation[1]
     IN IF c.type = "subject"
        THEN /\ subjects' = DeleteSubject(subjects, c.subjectId)
             /\ IF activeSubjectId = c.subjectId
                THEN activeSubjectId' = NoId /\ currentView' = "dashboard"
                ELSE UNCHANGED <<activeSubjectId, currentView>>
             /\ UNCHANGED currentMaterial
        ELSE /\ subjects' = DeleteMaterial(subjects, c.subjectId, c.materialId)
             /\ IF currentMaterial # Null /\ currentMaterial[1].id = c.materialId
                THEN currentMaterial' = Null /\ currentView' = "dashboard"
                ELSE UNCHANGED <<currentMaterial, currentView>>
             /\ UNCHANGED activeSubjectId
  /\ deleteConfirmation' = Null
  /\ UNCHANGED <<user, showLanding, activeTab, isProcessing, appError, now, metaPending,
                 inflight>>
  /\ KeepMove
  /\ lastCall' = Some([op |-> "delete", confirmation |-> deleteConfirmation[1],
                      subjects |-> subjects])
  /\ UNCHANGED <<analyzerVars, normVars, quizVars, viewVars, onLine, answers>>

\* the move button of a material of the subject view (part_000 line 247)
setMaterialToMove(j) ==
  /\ DashboardShown(user, isProcessing, currentView) /\ NoDialog
  /\ ActiveSubject # 0
  /\ j \in 1..Len(subjects[ActiveSubject].materials)
  /\ materialToMove' = Some(subjects[ActiveSubject].materials[j])
  /\ UNCHANGED <<user, showLanding, currentView, activeTab, subjects, activeSubjectId,
                 currentMaterial, isProcessing, appError, deleteConfirmation, now,
                 metaPending, inflight>>
  /\ lastCall' = Null
  /\ UNCHANGED <<analyzerVars, normVars, quizVars, viewVars, onLine, answers>>

\* the close buttons and the backdrop of the move dialog (part_000 lines 284, 300)
CancelMove ==
  /\ DashboardShown(user, isProcessing, currentView) /\ deleteConfirmation = Null
  /\ ActiveSubject # 0
  /\ materialToMove # Null
  /\ materialToMove' = Null
  /\ UNCHANGED <<user, showLanding, currentView, activeTab, subjects, activeSubjectId,
                 currentMaterial, isProcessing, appError, deleteConfirmation, now,
                 metaPending, inflight>>
  /\ lastCall' = Null
  /\ UNCHANGED <<analyzerVars, normVars, quizVars, viewVars, onLine, answers>>

\* what handleMoveMaterial does to the state of App (lines 166-210)
MoveState(materialId, targetSubjectId) ==
  /\ subjects' = MoveMaterial(subjects, materialId, targetSubjectId)
  /\ IF /\ currentMaterial # Null
        /\ currentMaterial[1].id = materialId
        /\ activeSubjectId # NoId
        /\ targetSubjectId # activeSubjectId
     THEN currentMaterial' = Null /\ currentView' = "dashboard"
     ELSE UNCHANGED <<currentMaterial, currentView>>
  /\ lastCall' = Some([op |-> "move", materialId |-> materialId,
                    targetSubjectId |-> targetSubjectId, subjects |-> subjects])
  /\ UNCHANGED <<user, showLanding, activeTab, activeSubjectId, isProcessing, appError,
                 deleteConfirmation, now, metaPending, inflight>>

\* a destination of the move dialog: the subjects other than the one on
\* screen (part_000 lines 48-53 and 308-313)
handleMoveConfirm(i) ==
  /\ DashboardShown(user, isProcessing, currentView) /\ deleteConfirmation = Null
  /\ ActiveSubject # 0
  /\ materialToMove # Null
  /\ i \in 1..Len(subjects)
  /\ subjects[i].id # activeSubjectId
  /\ MoveState(materialToMove[1].id, subjects[i].id)
  /\ materialToMove' = Null
  /\ UNCHANGED <<analyzerVars, normVars, quizVars, viewVars, onLine, answers>>

\* handleMoveMaterial called with any material id and any subject id
handleMoveMaterial(materialId, targetSubjectId) ==
  /\ MoveState(materialId, targetSubjectId)
  /\ KeepMove
  /\ UNCHANGED <<analyzerVars, normVars, quizVars, viewVars, onLine, answers>>

(***************************************************************************)
(* handleInputSubmit (lines 212-300).  A call that awaits is an entry of   *)
(* inflight: the activeSubjectId, type and sourceName of its closure,      *)
(* whether it awaits the FileReader or a request of                        *)
(* analyzeLectureContent, and the attempt of the retry loop.  call tells   *)
(* the calls under way apart.                                              *)
(***************************************************************************)
\* there is room for one more submit within MaxSubmits
SubmitRoom == MaterialCount(subjects) + Len(inflight) + Len(metaPending) < MaxSubmits

\* the least number no call under way carries
FreshCall == MinPos({k \in 1..(Len(inflight) + 1) :
                       \A i \in 1..Len(inflight) : inflight[i].call # k})

\* what the catch block of handleInputSubmit found (lines 275-277): the
\* message of the error it logs, and the state it found
CaughtBy(message) ==
  Some([op |-> "catch", message |-> message, subjects |-> subjects,
        currentMaterial |-> currentMaterial, currentView |-> currentView,
        inflight |-> inflight])

\* lines 213-235 and 244-250: up to the first await
StartSubmit(subjectId, kind) ==
  IF subjectId = NoId
  THEN UNCHANGED <<isProcessing, appError, inflight>>
  ELSE /\ isProcessing' = TRUE
       /\ appError' = ""
       /\ inflight' = Append(inflight,
            [call |-> FreshCall, subject |-> subjectId, type |-> kind.type,
             source |-> kind.source,
             stage |-> IF kind.type = "file" THEN "reading" ELSE "awaiting",
             attempt |-> IF kind.type = "file" THEN 0 ELSE 1])

\* FileUpload's handleSubmit with a file, or with a URL whose title is
\* known (FileUpload.tsx lines 143-174), while the browser is online
handleInputSubmit(kind) ==
  /\ MainShown(user, isProcessing) /\ NoDialog
  /\ onLine
  /\ currentView = "upload" /\ activeSubjectId # NoId
  /\ SubmitRoom
  /\ StartSubmit(activeSubjectId, kind)
  /\ UNCHANGED <<user, showLanding, currentView, activeTab, subjects, activeSubjectId,
                 currentMaterial, deleteConfirmation, now, metaPending>>
  /\ KeepMove
  /\ lastCall' = Null
  /\ UNCHANGED <<analyzerVars, normVars, quizVars, viewVars, onLine, answers>>

\* FileUpload's handleSubmit with a URL whose title is not known: it awaits
\* the metadata and calls onInputSubmit afterwards (lines 155-172); the
\* thumbnail that submits (line 390) stays enabled meanwhile
FetchMeta ==
  /\ MainShown(user, isProcessing) /\ NoDialog
  /\ onLine
  /\ currentView = "upload" /\ activeSubjectId # NoId
  /\ SubmitRoom
  /\ metaPending' = Append(metaPending, activeSubjectId)
  /\ UNCHANGED <<user, showLanding, currentView, activeTab, subjects, activeSubjectId,
                 currentMaterial, isProcessing, appError, deleteConfirmation, now,
                 inflight>>
  /\ KeepMove
  /\ lastCall' = Null
  /\ UNCHANGED <<analyzerVars, normVars, quizVars, viewVars, onLine, answers>>

\* the metadata request ends, well or not: the finally block calls the
\* handleInputSubmit of the render the submit was made in
MetaDone(i) ==
  /\ i \in 1..Len(metaPending)
  /\ metaPending' = RemoveAt(metaPending, i)
  /\ StartSubmit(metaPending[i], UrlKind)
  /\ UNCHANGED <<user, showLanding, currentView, activeTab, subjects, activeSubjectId,
                 currentMaterial, deleteConfirmation, now>>
  /\ KeepMove
  /\ lastCall' = Null
  /\ UNCHANGED <<analyzerVars, normVars, quizVars, viewVars, onLine, answers>>

\* handleInputSubmit called with a type and a value that do not go
\* together (line 252): the catch and the finally block run at once
handleInputSubmitInvalid ==
  /\ MainShown(user, isProcessing) /\ NoDialog
  /\ currentView = "upload" /\ activeSubjectId # NoId
  /\ appError' = ErrorMessage(onLine, "Invalid input type provided.")
  /\ isProcessing' = FALSE
  /\ lastCall' = CaughtBy("Invalid input type provided.")
  /\ UNCHANGED <<user, showLanding, currentView, activeTab, subjects, activeSubjectId,
                 currentMaterial, deleteConfirmation, now, metaPending, inflight>>
  /\ KeepMove
  /\ UNCHANGED <<analyzerVars, normVars, quizVars, viewVars, onLine, answers>>

\* lines 255-273 and the finally block: the call ends with an analysis
Succeed(i, analysisResult) ==
  LET c == inflight[i]
      newMaterial == NewMaterial(now, c.type, analysisResult, c.source)
  IN /\ subjects' = AddMaterial(subjects, c.subject, newMaterial)
     /\ currentMaterial' = Some(newMaterial)
     /\ currentView' = "analysis"
     /\ activeTab' = "summary"
     /\ isProcessing' = FALSE
     /\ inflight' = RemoveAt(inflight, i)
     /\ lastCall' = Null
     /\ UNCHANGED appError

\* a variant of the catch block that leaves the upload view
FailAndLeave(i, message) ==
  /\ appError' = ErrorMessage(onLine, message)
  /\ isProcessing' = FALSE
  /\ inflight' = RemoveAt(inflight, i)
  /\ lastCall' = CaughtBy(message)
  /\ currentView' = "dashboard"
  /\ UNCHANGED <<subjects, currentMaterial, activeTab>>

\* lines 275-299: the call ends with an error whose message is message
Fail(i, message) ==
  /\ appError' = ErrorMessage(onLine, message)
  /\ isProcessing' = FALSE
  /\ inflight' = RemoveAt(inflight, i)
  /\ lastCall' = CaughtBy(message)
  /\ UNCHANGED <<subjects, currentMaterial, currentView, activeTab>>

\* a variant of the loop whose catch block never throws
CaughtSilently(i, message) ==
  IF inflight[i].attempt + 1 <= MAX_RETRIES
  THEN /\ inflight' = [inflight EXCEPT ![i].attempt = @ + 1]
       /\ lastCall' = Null
       /\ UNCHANGED <<subjects, currentMaterial, currentView, activeTab, isProcessing,
                      appError>>
  ELSE Fail(i, "Analysis failed")

\* the catch block of analyzeLectureContent and the loop around it
\* (geminiService.ts lines 149, 250-255)
Caught(i, message) ==
  IF inflight[i].attempt = MAX_RETRIES
  THEN Fail(i, Rethrown(message))
  ELSE IF inflight[i].attempt + 1 <= MAX_RETRIES
  THEN /\ inflight' = [inflight EXCEPT ![i].attempt = @ + 1]
       /\ lastCall' = Null
       /\ UNCHANGED <<subjects, currentMaterial, currentView, activeTab, isProcessing,
                      appError>>
  ELSE Fail(i, "Analysis failed")

\* what the completions leave alone
CompletionFrame ==
  /\ UNCHANGED <<user, showLanding, activeSubjectId, deleteConfirmation, now, metaPending>>
  /\ KeepMove
  /\ UNCHANGED <<analyzerVars, normVars, quizVars, viewVars, onLine, answers>>

\* reader.onload (lines 227-233): analyzeLectureContent is called
ReadDone(i) ==
  /\ i \in 1..Len(inflight)
  /\ inflight[i].stage = "reading"
  /\ inflight' = [inflight EXCEPT ![i].stage = "awaiting", ![i].attempt = 1]
  /\ lastCall' = Null
  /\ UNCHANGED <<subjects, currentMaterial, currentView, activeTab, isProcessing, appError>>
  /\ CompletionFrame

\* reader.onerror (line 234): the promise rejects with an event, which has
\* no message
ReadFail(i) ==
  /\ i \in 1..Len(inflight)
  /\ inflight[i].stage = "reading"
  /\ Fail(i, "")
  /\ CompletionFrame

\* the request of the attempt resolves; r is what the attempt makes of the
\* response
RequestResolve(i, r) ==
  /\ i \in 1..Len(inflight)
  /\ inflight[i].stage = "awaiting"
  /\ IF r.ok THEN Succeed(i, r.data) ELSE Caught(i, r.msg)
  /\ CompletionFrame

\* the request of the attempt rejects
RequestReject(i, message) ==
  /\ i \in 1..Len(inflight)
  /\ inflight[i].stage = "awaiting"
  /\ Caught(i, message)
  /\ CompletionFrame

\* a millisecond passes
Tick ==
  /\ now < FirstTime + MaxTicks
  /\ now' = now + 1
  /\ UNCHANGED <<user, showLanding, currentView, activeTab, subjects, activeSubjectId,
                 currentMaterial, isProcessing, appError, deleteConfirmation,
                 materialToMove, metaPending, inflight>>
  /\ lastCall' = Null
  /\ UNCHANGED <<analyzerVars, normVars, quizVars, viewVars, onLine, answers>>

\* the browser goes offline or comes back (navigator.onLine, line 279)
setOnLine(b) ==
  /\ onLine # b
  /\ onLine' = b
  /\ UNCHANGED <<user, showLanding, currentView, activeTab, subjects, activeSubjectId,
                 currentMaterial, isProcessing, appError, deleteConfirmation,
                 materialToMove, now, metaPending, inflight>>
  /\ lastCall' = Null
  /\ UNCHANGED <<analyzerVars, normVars, quizVars, viewVars, answers>>

\* the await of call k ends
Complete(k) ==
  \E i \in 1..Len(inflight) :
     /\ inflight[i].call = k
     /\ \/ ReadDone(i)
        \/ ReadFail(i)
        \/ \E r \in answers : RequestResolve(i, r)
        \/ \E message \in AppRequestErrors : RequestReject(i, message)

\* the request of call k is answered with an analysis
Answered(k) ==
  \E i \in 1..Len(inflight) :
     /\ inflight[i].call = k
     /\ \E r \in answers : r.ok /\ RequestResolve(i, r)

(***************************************************************************)
(* The library: a user who logs in, keeps subjects, submits URLs whose     *)
(* analyses succeed, opens, moves and deletes materials.                   *)
(***************************************************************************)
NextApp ==
  \/ onGetStarted
  \/ onLogin
  \/ handleLogout
  \/ GoHome
  \/ BackToSubject
  \/ \E tab \in Tabs : setActiveTab(tab)
  \/ \E name \in SubjectNames : handleCreateSubject(name)
  \/ \E i \in 1..MaxSubjects : onSelectSubject(i)
  \/ onBackToDashboard
  \/ onNewAnalysis
  \/ \E j \in 1..MaxSubmits : onSelectMaterial(j)
  \/ \E i \in 1..MaxSubjects : handleDeleteSubject(i)
  \/ \E j \in 1..MaxSubmits : handleDeleteMaterial(j)
  \/ CancelDelete
  \/ executeDelete
  \/ \E j \in 1..MaxSubmits : setMaterialToMove(j)
  \/ CancelMove
  \/ \E i \in 1..MaxSubjects : handleMoveConfirm(i)
  \/ handleInputSubmit(UrlKind)
  \/ FetchMeta
  \/ \E i \in 1..MaxSubmits : MetaDone(i)
  \/ \E k \in 1..MaxSubmits : Answered(k)
  \/ Tick

SpecApp == Init /\ [][NextApp]_vars

(***************************************************************************)
(* Moves: subjects, URLs analysed into them, the move dialog               *)
(* and handleMoveMaterial called with any material id and any subject id,  *)
(* as a caller other than the dialog may.                                  *)
(***************************************************************************)
\* the ids a material can have within MaxTicks, and one no material has
MaterialIds == FirstTime..(FirstTime + MaxTicks + 1)
\* the ids of the two first subjects, and one that a created subject can have
SubjectIds == 1..MaxSubjects

NextMove ==
  \/ onGetStarted
  \/ onLogin
  \/ \E name \in SubjectNames : handleCreateSubject(name)
  \/ \E i \in 1..MaxSubjects : onSelectSubject(i)
  \/ onBackToDashboard
  \/ onNewAnalysis
  \/ \E j \in 1..MaxSubmits : onSelectMaterial(j)
  \/ BackToSubject
  \/ FetchMeta
  \/ \E i \in 1..MaxSubmits : MetaDone(i)
  \/ \E k \in 1..MaxSubmits : Answered(k)
  \/ Tick
  \/ \E j \in 1..MaxSubmits : setMaterialToMove(j)
  \/ CancelMove
  \/ \E i \in 1..MaxSubjects : handleMoveConfirm(i)
  \/ \E materialId \in MaterialIds, targetSubjectId \in SubjectIds :
        handleMoveMaterial(materialId, targetSubjectId)

SpecMove == Init /\ [][NextMove]_vars

(***************************************************************************)
(* The upload view: a user who submits files and URLs whose analyses end   *)
(* in every way the service and the browser allow.                         *)
(***************************************************************************)
NextSubmit ==
  \/ onGetStarted
  \/ onLogin
  \/ \E i \in 1..MaxSubjects : onSelectSubject(i)
  \/ onNewAnalysis
  \/ BackToSubject
  \/ \E tab \in Tabs : setActiveTab(tab)
  \/ DismissError
  \/ \E kind \in SubmitKinds : handleInputSubmit(kind)
  \/ FetchMeta
  \/ \E i \in 1..MaxSubmits : MetaDone(i)
  \/ handleInputSubmitInvalid
  \/ \E k \in 1..MaxSubmits : Complete(k)
  \/ \E b \in BOOLEAN : setOnLine(b)
  \/ Tick

SpecSubmit == Init /\ [][NextSubmit]_vars

\* every await of a call ends: the request is answered or rejected, the
\* file is read or not
SpecSubmitLive == SpecSubmit /\ \A k \in 1..MaxSubmits : WF_vars(Complete(k))

(***************************************************************************)
(* Claims about the library of subjects and materials.                     *)
(***************************************************************************)
\* subject subjectId of list holds a material whose id is materialId
Holds(list, subjectId, materialId) ==
  \E i \in 1..Len(list) :
     /\ list[i].id = subjectId
     /\ FindMaterial(list[i].materials, materialId) # 0

\* the call of handleMoveMaterial that made the last step, if one did
MovesMade ==
  IF lastCall # Null /\ lastCall[1].op = "move" THEN {lastCall[1]} ELSE {}

\* C11: handleMoveMaterial(m, t) called with t a subject that holds m at
\* the time of the call leaves the list of subjects as it was.
C11_SameSubjectNoChange ==
  \A c \in MovesMade :
     Holds(c.subjects, c.targetSubjectId, c.materialId) => subjects = c.subjects

\* a move of a material into a subject that held it has changed the
\* subjects
C11_Failure ==
  \E c \in MovesMade :
     /\ Holds(c.subjects, c.targetSubjectId, c.materialId)
     /\ subjects # c.subjects

\* how many materials of list carry the id materialId
RECURSIVE CountIn(_, _)
CountIn(materials, materialId) ==
  IF materials = <<>> THEN 0
  ELSE (IF materials[1].id = materialId THEN 1 ELSE 0)
         + CountIn(Tail(materials), materialId)

\* the first subject of list whose id is subjectId
SubjectOf(list, subjectId) == list[FindSubject(list, subjectId)]

\* the moves the claims about a move to another subject speak of: the
\* material was in subject s, the target t is another subject of the list
MovesAcross ==
  {c \in MovesMade :
     /\ SourceOf(c.subjects, c.materialId) # 0
     /\ FindSubject(c.subjects, c.targetSubjectId) # 0
     /\ ~Holds(c.subjects, c.targetSubjectId, c.materialId)}

\* C12: handleMoveMaterial(m, t) with m in subject s and t another subject
\* of the list removes m from s, prepends it to the materials of t exactly
\* once, keeps the other materials of s and of t in their order, and leaves
\* every other subject as it was.
C12_MoveToOther ==
  \A c \in MovesAcross :
     LET src == SourceOf(c.subjects, c.materialId)
         s == c.subjects[src]
         m == s.materials[FindMaterial(s.materials, c.materialId)]
     IN /\ Len(subjects) = Len(c.subjects)
        /\ \A i \in 1..Len(subjects) :
              IF c.subjects[i].id = s.id
              THEN /\ subjects[i].materials
                        = RemoveAt(s.materials, FindMaterial(s.materials, c.materialId))
                   /\ CountIn(subjects[i].materials, c.materialId) = 0
              ELSE IF c.subjects[i].id = c.targetSubjectId
              THEN subjects[i].materials = <<m>> \o c.subjects[i].materials
              ELSE subjects[i] = c.subjects[i]
        /\ \A i \in 1..Len(subjects) :
              /\ subjects[i].id = c.subjects[i].id
              /\ subjects[i].name = c.subjects[i].name

\* the source held two materials with the id; the move took both out of
\* it and put one into the target
C12_Failure ==
  \E c \in MovesAcross :
     LET s == c.subjects[SourceOf(c.subjects, c.materialId)]
     IN /\ CountIn(s.materials, c.materialId) = 2
        /\ CountIn(SubjectOf(subjects, s.id).materials, c.materialId) = 0
        /\ CountIn(SubjectOf(subjects, c.targetSubjectId).materials, c.materialId) = 1

\* how many materials of the subjects of list carry the id materialId
RECURSIVE CountAll(_, _)
CountAll(list, materialId) ==
  IF list = <<>> THEN 0
  ELSE CountIn(list[1].materials, materialId) + CountAll(Tail(list), materialId)

\* C13: in every state reached by creating subjects, analyses that succeed,
\* moves and confirmed deletions, no material id occurs in the lists of two
\* subjects or twice in the list of one.
C13_UniqueMaterialIds ==
  \A materialId \in MaterialIds : CountAll(subjects, materialId) <= 1

\* one subject holds two materials with the same id, none is in flight
C13_Failure ==
  /\ inflight = <<>> /\ metaPending = <<>>
  /\ \E i \in 1..Len(subjects) :
        /\ Len(subjects[i].materials) = 2
        /\ subjects[i].materials[1].id = subjects[i].materials[2].id

\* the places <<i, j>> of list at which the material r stands
Places(list, r) ==
  {p \in (1..Len(list)) \X (1..MaxSubmits) :
     /\ p[2] <= Len(list[p[1]].materials)
     /\ list[p[1]].materials[p[2]] = r}

\* the materials of the subjects of list
Materials(list) ==
  UNION {{list[i].materials[j] : j \in 1..Len(list[i].materials)} : i \in 1..Len(list)}

\* both lists hold the same materials, each as many times
SameMaterials(before, after) ==
  \A r \in Materials(before) \cup Materials(after) :
     Cardinality(Places(before, r)) = Cardinality(Places(after, r))

\* C14: whatever material id and subject id handleMoveMaterial is called
\* with, the subjects hold the same materials after the call as before it,
\* none more and none less.
C14_NeitherCreatesNorDestroys ==
  \A c \in MovesMade : SameMaterials(c.subjects, subjects)

\* no id was repeated, the target was no subject of the list, and the
\* material is gone
C14_Failure ==
  \E c \in MovesMade :
     /\ \A materialId \in MaterialIds : CountAll(c.subjects, materialId) <= 1
     /\ FindSubject(c.subjects, c.targetSubjectId) = 0
     /\ CountAll(c.subjects, c.materialId) = 1
     /\ CountAll(subjects, c.materialId) = 0

(***************************************************************************)
(* Claims about handleInputSubmit.                                         *)
(***************************************************************************)
\* the catch block of handleInputSubmit that made the last step, if one did
Catches ==
  IF lastCall # Null /\ lastCall[1].op = "catch" THEN {lastCall[1]} ELSE {}

\* C15: when a submit fails (the analyzer throws, the file cannot be read,
\* the input type is invalid), one message that is not empty is shown, the
\* subjects, currentMaterial and currentView are as before, and no call is
\* awaited that was not awaited before.
C15_FailureOnlyReports ==
  \A c \in Catches :
     /\ appError # ""
     /\ ~isProcessing
     /\ subjects = c.subjects
     /\ currentMaterial = c.currentMaterial
     /\ currentView = c.currentView
     /\ Len(inflight) <= Len(c.inflight)
     /\ \A i \in 1..Len(inflight) : \E j \in 1..Len(c.inflight) : inflight[i] = c.inflight[j]

\* a file could not be read while the subject held a material already
C15_Witness ==
  \E c \in Catches :
     /\ c.message = ""
     /\ MaterialCount(c.subjects) = 1
     /\ currentView = "upload"
     /\ appError = "An unexpected error occurred."
     /\ inflight = <<>>

C17_RecoveryOrder ==
  /\ [](stage = "parsed" => /\ JsonParse(cleaned).ok
                            /\ parsed = JsonParse(cleaned).v
                            /\ mended = "")
  /\ [](stage \in {"repaired", "repairFailed", "extracted"} =>
          /\ ~JsonParse(cleaned).ok
          /\ mended = repairJson(cleaned))
  /\ [](stage = "repaired" => JsonParse(mended).ok /\ parsed = JsonParse(mended).v)
  /\ [](stage = "extracted" => /\ ~JsonParse(mended).ok
                               /\ parsed = fallbackExtraction(TextOf(input)))
  /\ [][/\ stage = "cleaned" => stage' \in {"parsed", "strictFailed"}
        /\ stage = "parsed" => stage' = "idle"
        /\ stage = "strictFailed" => stage' \in {"repaired", "repairFailed"}
        /\ stage = "repaired" => stage' = "idle"
        /\ stage = "repairFailed" => stage' = "extracted"]_vars

\* the strict parse and the parse of the repaired text have failed, the
\* data is what fallbackExtraction found
C17_Witness ==
  /\ stage = "extracted"
  /\ ~JsonParse(cleaned).ok
  /\ mended # ""
  /\ ~JsonParse(mended).ok
  /\ parsed = fallbackExtraction(TextOf(input))

\* what fallbackExtraction makes of the response received
Extracted == fallbackExtraction(response)

\* C18: for every text, fallbackExtraction returns an object with the five
\* fields: title and summary are strings, 'Untitled Analysis' and
\* 'Summary unavailable.' when the text names no such field; keyPoints is
\* an array that is not empty; flashcards and quizzes are arrays; every
\* quiz has at most 4 options, correctAnswerIndex 0 and the placeholder
\* explanation.
C18_FallbackAlwaysAnAnalysis ==
  response # "" =>
    /\ Extracted.t = "object"
    /\ Len(Extracted.m) = 10
    /\ Prop(Extracted, "title").t = "string"
    /\ ~Includes(response, Quoted("title")) =>
          Prop(Extracted, "title") = JStr("Untitled Analysis")
    /\ Prop(Extracted, "summary").t = "string"
    /\ ~Includes(response, Quoted("summary")) =>
          Prop(Extracted, "summary") = JStr("Summary unavailable.")
    /\ IsArray(Prop(Extracted, "keyPoints"))
    /\ Len(Prop(Extracted, "keyPoints").k) >= 1
    /\ ~Includes(response, Quoted("keyPoints")) =>
          Prop(Extracted, "keyPoints").k = <<JStr("Analysis completed partially.")>>
    /\ IsArray(Prop(Extracted, "flashcards"))
    /\ IsArray(Prop(Extracted, "quizzes"))
    /\ \A i \in 1..Len(Prop(Extracted, "quizzes").k) :
          \A q \in {Prop(Extracted, "quizzes").k[i]} :
             /\ Prop(q, "question").t = "string"
             /\ IsArray(Prop(q, "options"))
             /\ Len(Prop(q, "options").k) <= 4
             /\ Prop(q, "correctAnswerIndex") = JInt(0)
             /\ Prop(q, "explanation") = JStr("Explanation unavailable in fallback mode.")

\* the data of the response came from fallbackExtraction: the title was
\* found, the summary and the key points were not, and the quiz of five
\* options was cut to four
C18_Witness ==
  /\ path = "fallback"
  /\ Includes(response, Quoted("e"))
  /\ Prop(Extracted, "title") = JStr("T")
  /\ Prop(Extracted, "summary") = JStr("Summary unavailable.")
  /\ Prop(Extracted, "keyPoints").k = <<JStr("Analysis completed partially.")>>
  /\ Len(Prop(Extracted, "quizzes").k) = 1
  /\ Prop(Prop(Extracted, "quizzes").k[1], "options").k
        = <<JStr("a"), JStr("b"), JStr("c"), JStr("d")>>

\* the messages of the error taxonomy
NetworkErrorText == "Network Error: Please check your internet connection."
ContentAccessText == "Content Access Error: The AI could not access the transcript or content of this video. It might be private, age-restricted, or lacking captions."
MalformedText == "Analysis Error: The AI response was malformed. Please try a different video or shorter file."
InputErrorText == "Input Error: The file might be corrupted or the format invalid."
ServerBusyText == "Server Busy: AI Service is temporarily overloaded. Please try again."
ContentFilteredText == "Content Filtered: The lecture content was flagged by safety filters."
UnexpectedText == "An unexpected error occurred."

\* the two messages the analyzer's answer can carry as a code
IsCode(message) == message \in {"AI_CONTENT_ACCESS_ERROR", "AI_JSON_PARSE_ERROR"}

\* the message names a bad request, an overload, a safety block
Names400(message) == message # "" /\ Includes(message, "400")
NamesBusy(message) ==
  message # "" /\ (Includes(message, "503") \/ Includes(message, "Overloaded"))
NamesSafety(message) == message # "" /\ Includes(message, "SAFETY")

\* the priorities among the messages that are no code: '400', then '503'
\* or 'Overloaded', then 'SAFETY', then the message itself, then
\* 'An unexpected error occurred.'
ByContent(shown, message) ==
  /\ Names400(message) => shown = InputErrorText
  /\ ~Names400(message) /\ NamesBusy(message) => shown = ServerBusyText
  /\ ~Names400(message) /\ ~NamesBusy(message) /\ NamesSafety(message) =>
        shown = ContentFilteredText
  /\ ~Names400(message) /\ ~NamesBusy(message) /\ ~NamesSafety(message) =>
        shown = (IF message # "" THEN message ELSE UnexpectedText)

\* C19 as stated: offline, the Network Error message is shown whatever
\* the error; online, the message is chosen by what the error's message
\* contains, in the order '400', '503' or 'Overloaded', 'SAFETY', the
\* message itself, and 'An unexpected error occurred.' without a message.
C19_TaxonomyByContent ==
  \A c \in Catches :
     /\ ~onLine => appError = NetworkErrorText
     /\ onLine => ByContent(appError, c.message)

\* C19: offline, the Network Error message is shown whatever the error;
\* online, the message AI_CONTENT_ACCESS_ERROR gives the Content Access
\* Error text and AI_JSON_PARSE_ERROR the Analysis Error text; any other
\* message is chosen by what it contains, in the order '400', '503' or
\* 'Overloaded', 'SAFETY', the message itself, and 'An unexpected error
\* occurred.' without a message.
C19_Taxonomy ==
  \A c \in Catches :
     /\ ~onLine => appError = NetworkErrorText
     /\ onLine /\ c.message = "AI_CONTENT_ACCESS_ERROR" => appError = ContentAccessText
     /\ onLine /\ c.message = "AI_JSON_PARSE_ERROR" => appError = MalformedText
     /\ onLine /\ ~IsCode(c.message) => ByContent(appError, c.message)

\* online, the second answer announced AI_CONTENT_ACCESS_ERROR and the
\* Content Access Error text is shown
C19_Witness ==
  /\ onLine
  /\ \E c \in Catches : c.message = "AI_CONTENT_ACCESS_ERROR"
  /\ appError = ContentAccessText
  /\ inflight = <<>>

\* call k of handleInputSubmit is awaiting
InFlight(k) == \E i \in 1..Len(inflight) : inflight[i].call = k

\* C20: when every request and every file read ends, every call of
\* handleInputSubmit that awaits comes to its end and isProcessing, once
\* true, becomes false again; and no call ends with the error 'Analysis
\* failed' that stands after the loop of analyzeLectureContent.
C20_EveryCallEnds ==
  /\ \A k \in 1..MaxSubmits : InFlight(k) ~> ~InFlight(k)
  /\ isProcessing ~> ~isProcessing
  /\ [](\A c \in Catches : c.message # "Analysis failed")

\* both attempts of a call were rejected without a message: the call has
\* ended with the error thrown by the catch block of the second attempt
C20_Witness ==
  /\ \E c \in Catches :
        /\ c.message = "Failed to analyze content"
        /\ Len(c.inflight) = 1
        /\ c.inflight[1].attempt = MAX_RETRIES
  /\ inflight = <<>>
  /\ ~isProcessing
  /\ onLine
  /\ appError = "Failed to analyze content"

(***************************************************************************)
(* repairJson on its own: the function is called with a text and returns.  *)
(* The texts are cut-off JSON with and without a trailing comma, a trailing *)
(* backslash and white space at either end, brackets inside strings,        *)
(* escaped quotes, and a closer that matches no opener.                     *)
(***************************************************************************)
RepairLeads == {"", " "}

RepairBodies ==
  { "{\"a\":[1",
    "{\"a\":\"x[",
    "[{\"k\":\"v\"}",
    "{\"a\":\"b\\\"{\",\"c\":[",
    "[}",
    "{\"a\":{\"b\":[2",
    "{\"a\":1}",
    "[1\\\"" }

RepairEndings == {"", ",", "\\", ",\\", ", ", ", \\", "\\\\", "\n"}

RepairInputs ==
  {lead \o body \o ending :
     lead \in RepairLeads, body \in RepairBodies, ending \in RepairEndings}

\* repairJson(jsonStr) is called and has returned
RepairCall(jsonStr) ==
  /\ stage = "idle"
  /\ stage' = "repairCalled"
  /\ cleaned' = jsonStr
  /\ mended' = repairJson(jsonStr)
  /\ UNCHANGED <<input, parsed, analyzerVars, quizVars, appVars, viewVars>>

\* the caller drops the result
RepairReturn ==
  /\ stage = "repairCalled"
  /\ stage' = "idle"
  /\ cleaned' = ""
  /\ mended' = ""
  /\ UNCHANGED <<input, parsed, analyzerVars, quizVars, appVars, viewVars>>

NextRepair ==
  \/ \E jsonStr \in RepairInputs : RepairCall(jsonStr)
  \/ RepairReturn

SpecRepair == Init /\ [][NextRepair]_vars

\* tail closes the brackets of stack (top last), the innermost first
ClosesInnermostFirst(stack, tail) ==
  /\ Len(tail) = Len(stack)
  /\ \A i \in 1..Len(tail) :
        Ch(tail, i) = (IF Ch(stack, Len(stack) + 1 - i) = "{" THEN "}" ELSE "]")

\* s without one backslash at its end, then without one comma at its end
DroppedOnce(s) ==
  LET a == IF Len(s) > 0 /\ Ch(s, Len(s)) = "\\" THEN SubSeq(s, 1, Len(s) - 1) ELSE s
  IN  IF Len(a) > 0 /\ Ch(a, Len(a)) = "," THEN SubSeq(a, 1, Len(a) - 1) ELSE a

\* s without the white space at its ends, then without one backslash at its
\* end, then without a comma that only white space follows
DroppedTrimmed(s) ==
  LET ink == {j \in 1..Len(s) : Ch(s, j) \notin WS}
      t   == IF ink = {} THEN "" ELSE SubSeq(s, MinPos(ink), MaxPos(ink))
      a   == IF Len(t) > 0 /\ Ch(t, Len(t)) = "\\" THEN SubSeq(t, 1, Len(t) - 1) ELSE t
      ai  == {j \in 1..Len(a) : Ch(a, j) \notin WS}
      e   == IF ai = {} THEN 0 ELSE MaxPos(ai)
  IN  IF e > 0 /\ Ch(a, e) = "," THEN SubSeq(a, 1, e - 1) ELSE a

\* out is kept followed by one closer for each bracket that the scan of kept
\* leaves open, innermost first; unless jsonStr ends inside a string, the
\* scan of out leaves no bracket open
RepairedFrom(jsonStr, kept, out) ==
  /\ Len(out) >= Len(kept)
  /\ SubSeq(out, 1, Len(kept)) = kept
  /\ ClosesInnermostFirst(ScanAll(kept).stack, SubSeq(out, Len(kept) + 1, Len(out)))
  /\ ~ScanAll(jsonStr).inString => ScanAll(out).stack = ""

\* C21 as stated: repairJson drops one trailing backslash and one trailing
\* comma, keeps the remaining input unchanged as a prefix of its output and
\* appends one closer for each bracket still open outside strings, innermost
\* first; when the input does not end inside a string, re-scanning the output
\* leaves no bracket open.
C21_KeepsInputAsGiven ==
  stage = "repairCalled" => RepairedFrom(cleaned, DroppedOnce(cleaned), mended)

\* C21, amended: repairJson first trims the white space at both ends of the
\* input, then drops one trailing backslash, then one trailing comma together
\* with the white space after it; what remains is a prefix of the output,
\* followed by one closer for each bracket still open outside strings,
\* innermost first; when the input does not end inside a string, re-scanning
\* the output leaves no bracket open.
C21_RepairCloses ==
  stage = "repairCalled" => RepairedFrom(cleaned, DroppedTrimmed(cleaned), mended)

\* a text cut inside two nested brackets, with a comma and a backslash at its
\* end, has been closed innermost first
C21_Witness ==
  /\ stage = "repairCalled"
  /\ cleaned = "{\"a\":[1,\\"
  /\ mended = "{\"a\":[1]}"

\* C22: at most one call of handleInputSubmit is in progress, so no two
\* analysis requests are in flight together, and isProcessing is never false
\* while a call is in flight.
C22_OneSubmitAtATime ==
  /\ Len(inflight) <= 1
  /\ inflight # <<>> => isProcessing

\* two calls were in flight together; the first has added its material and
\* its finally block has set isProcessing to false, the second still awaits
\* its answer
C22_Failure ==
  /\ Len(inflight) = 1
  /\ inflight[1].call = 2
  /\ inflight[1].stage = "awaiting"
  /\ MaterialCount(subjects) = 1
  /\ ~isProcessing

\* material is one of the materials of one of the subjects
Contained(material) ==
  \E s \in 1..Len(subjects) :
    \E j \in 1..Len(subjects[s].materials) : subjects[s].materials[j] = material

\* C23: whenever currentView is 'analysis', currentMaterial is non-null and
\* is a material currently contained in one of the subjects.
C23_AnalysisShowsAStoredMaterial ==
  currentView = "analysis" =>
    /\ currentMaterial # Null
    /\ Contained(currentMaterial[1])

\* the analysis view shows a material that no subject holds: its subject
\* was deleted while the submit awaited the video's metadata
C23_Failure ==
  /\ currentView = "analysis"
  /\ currentMaterial # Null
  /\ ~Contained(currentMaterial[1])
  /\ Len(subjects) = Len(InitialSubjects) - 1
  /\ MaterialCount(subjects) = 0
  /\ inflight = <<>>

\* the title names a failure: a string that contains 'Error' or 'Analysis
\* Failed', or an array that holds one of them
NamesFailure(title) ==
  \/ title.t = "string" /\ (Includes(title.s, "Error") \/ Includes(title.s, "Analysis Failed"))
  \/ title.t = "array" /\ \E i \in 1..Len(title.k) :
                             title.k[i] \in {JStr("Error"), JStr("Analysis Failed")}

\* the response text is recovered into an object whose title names a failure
Announcing(text) ==
  /\ text # ""
  /\ CanRead(Recover(text).data)
  /\ NamesFailure(Prop(Recover(text).data, "title"))

\* the message such a response fails with
AnnouncedMessage(text) ==
  LET summary == Prop(Recover(text).data, "summary")
  IN IF Truthy(summary) THEN JsToString(summary) ELSE "Content analysis failed."

\* the step ends the current attempt as a failure with message msg: the
\* first attempt is followed by the second request, the second by the throw
FailsAttemptWith(msg) ==
  /\ failed' = Append(failed, msg)
  /\ IF attempt < MAX_RETRIES
     THEN /\ pc' = "awaiting"
          /\ attempt' = attempt + 1
          /\ issued' = issued + 1
          /\ pending' = {attempt + 1}
     ELSE /\ pc' = "thrown"
          /\ error' = (IF msg # "" THEN msg ELSE "Failed to analyze content")
          /\ pending' = {}

\* C24: analyzeLectureContent never returns an analysis whose title contains
\* 'Error' or 'Analysis Failed'; a response with such a title makes the
\* attempt fail with the response's summary (or 'Content analysis failed.')
\* as the message, and the attempt is retried like any other failure.
C24_ErrorTitleIsAFailure ==
  /\ [](pc = "returned" => ~NamesFailure(Prop(data, "title")))
  /\ [][\A text \in ResponseTexts :
          (Resolve(text) /\ Announcing(text)) => FailsAttemptWith(AnnouncedMessage(text))]_vars

\* the first response had the title 'Analysis Failed' and the summary 'No
\* content': the attempt failed with the summary and the second request is
\* awaited
C24_Witness ==
  /\ pc = "awaiting"
  /\ attempt = 2
  /\ issued = 2
  /\ Announcing(response)
  /\ Prop(Recover(response).data, "title") = JStr("Analysis Failed")
  /\ failed = <<"No content">>

\* the step from the subjects before to the subjects after takes no subject
\* and no material away
NothingRemoved(before, after) ==
  /\ Len(after) >= Len(before)
  /\ \A i \in 1..Len(before) : after[i].id = before[i].id /\ after[i].name = before[i].name
  /\ \A r \in Materials(before) :
        Cardinality(Places(after, r)) >= Cardinality(Places(before, r))

\* after is before without the one target the confirmation c names: the
\* subject with all its materials, or the one material of the named subject
RemovesExactly(before, c, after) ==
  IF c.type = "subject"
  THEN \E i \in 1..Len(before) :
          /\ before[i].id = c.subjectId
          /\ after = RemoveAt(before, i)
  ELSE \E i \in 1..Len(before) :
          /\ before[i].id = c.subjectId
          /\ \E j \in 1..Len(before[i].materials) :
                /\ before[i].materials[j].id = c.materialId
                /\ after = [before EXCEPT ![i].materials = RemoveAt(@, j)]

\* the call of executeDelete that made the last step, if one did
DeletesMade ==
  IF lastCall # Null /\ lastCall[1].op = "delete" THEN {lastCall[1]} ELSE {}

\* C25: no subject or material is removed without a pending confirmation;
\* handleDeleteSubject, handleDeleteMaterial and cancelling the dialog leave
\* the subjects unchanged; executeDelete removes exactly the target the
\* pending confirmation names, leaves every other subject and material
\* unchanged, and clears the confirmation.
C25_DeleteOnlyConfirmed ==
  /\ [][deleteConfirmation = Null => NothingRemoved(subjects, subjects')]_vars
  /\ [][((\E i \in 1..MaxSubjects : handleDeleteSubject(i))
           \/ (\E j \in 1..MaxSubmits : handleDeleteMaterial(j))
           \/ CancelDelete) => subjects' = subjects]_vars
  /\ [](\A c \in DeletesMade :
          /\ RemovesExactly(c.subjects, c.confirmation, subjects)
          /\ deleteConfirmation = Null)

\* executeDelete, confirmed for one material of a subject that held two
\* materials with the same id, has removed both
C25_Failure ==
  \E c \in DeletesMade :
    /\ c.confirmation.type = "material"
    /\ MaterialCount(c.subjects) = 2
    /\ MaterialCount(subjects) = 0

\* the validated questions answered with their clamped correct index
AnsweredRight ==
  {idx \in 0..(Len(validQuizzes(quizzes)) - 1) :
     /\ idx \in DOMAIN selectedAnswers
     /\ selectedAnswers[idx] = getSafeCorrectIndex(validQuizzes(quizzes)[idx + 1])}

\* C27: QuizView has two phases.  The results show only when every
\* validated question has a selected answer; while they show, no step but
\* handleRetry changes the selections or the score, and handleRetry clears
\* every selection and hides the results; the score is always the number of
\* validated questions whose selection equals the clamped correct index, a
\* number from 0 to the number of validated questions.
C27_TwoPhases ==
  /\ [](showResults =>
          \A idx \in 0..(Len(validQuizzes(quizzes)) - 1) : idx \in DOMAIN selectedAnswers)
  /\ [][showResults =>
          IF showResults'
          THEN /\ selectedAnswers' = selectedAnswers
               /\ calculateScore(validQuizzes(quizzes'), selectedAnswers')
                    = calculateScore(validQuizzes(quizzes), selectedAnswers)
          ELSE selectedAnswers' = NoAnswers]_vars
  /\ [][handleRetry => (selectedAnswers' = NoAnswers /\ ~showResults')]_vars
  /\ [](/\ calculateScore(validQuizzes(quizzes), selectedAnswers) = Cardinality(AnsweredRight)
        /\ calculateScore(validQuizzes(quizzes), selectedAnswers)
             \in 0..Len(validQuizzes(quizzes)))

\* the results of two validated questions show, one answered right and one
\* answered wrong
C27_Witness ==
  /\ showResults
  /\ Len(validQuizzes(quizzes)) = 2
  /\ DOMAIN selectedAnswers = {0, 1}
  /\ selectedAnswers[0] = getSafeCorrectIndex(validQuizzes(quizzes)[1])
  /\ selectedAnswers[1] # getSafeCorrectIndex(validQuizzes(quizzes)[2])
  /\ calculateScore(validQuizzes(quizzes), selectedAnswers) = 1

(***************************************************************************)
(* ChatView: typing, the submit of the form, the answer of the service     *)
(* chunk by chunk, and Clear Chat.                                         *)
(***************************************************************************)
\* onChange of the text field (line 153)
setInput(text) ==
  /\ chatInput' = text
  /\ UNCHANGED <<messages, isLoading, chatRequests, chatNow>>
  /\ UNCHANGED OutsideChat

\* a variant of the submit handler that does not look at isLoading
ChatView_handleSubmitAnyway ==
  /\ Len(messages) + 3 <= MaxMessages
  /\ Len(chatRequests) < MaxRequests
  /\ IF Trim(chatInput) = ""
     THEN UNCHANGED chatVars
     ELSE /\ messages' = Append(messages,
                           ChatMessage(ChatId("", chatNow), "user", chatInput))
          /\ chatInput' = ""
          /\ isLoading' = TRUE
          /\ chatRequests' = Append(chatRequests,
                               [stage |-> "sending", botMessageId |-> ChatId("", 0),
                                fullText |-> "", chunks |-> 0])
          /\ UNCHANGED chatNow
  /\ UNCHANGED OutsideChat

\* the form is submitted (lines 42-63, up to the await)
ChatView_handleSubmit ==
  /\ Len(messages) + 3 <= MaxMessages
  /\ Len(chatRequests) < MaxRequests
  /\ IF Trim(chatInput) = "" \/ isLoading
     THEN UNCHANGED chatVars
     ELSE /\ messages' = Append(messages,
                           ChatMessage(ChatId("", chatNow), "user", chatInput))
          /\ chatInput' = ""
          /\ isLoading' = TRUE
          /\ chatRequests' = Append(chatRequests,
                               [stage |-> "sending", botMessageId |-> ChatId("", 0),
                                fullText |-> "", chunks |-> 0])
          /\ UNCHANGED chatNow
  /\ UNCHANGED OutsideChat

\* sendMessageStream resolves: the empty message of the model is appended
\* (lines 63-71)
SendResolve(k) ==
  /\ k \in 1..Len(chatRequests)
  /\ chatRequests[k].stage = "sending"
  /\ messages' = Append(messages, ChatMessage(ChatId("", chatNow + 1), "model", ""))
  /\ chatRequests' = [chatRequests EXCEPT ![k].stage = "streaming",
                                          ![k].botMessageId = ChatId("", chatNow + 1)]
  /\ UNCHANGED <<chatInput, isLoading, chatNow>>
  /\ UNCHANGED OutsideChat

\* the catch and the finally block (lines 81-90)
ChatCaught(k) ==
  /\ messages' = Append(messages, ChatMessage(ChatId("", chatNow), "model", ApologyText))
  /\ isLoading' = FALSE
  /\ chatRequests' = RemoveAt(chatRequests, k)
  /\ UNCHANGED <<chatInput, chatNow>>

\* sendMessageStream throws or rejects
SendReject(k) ==
  /\ k \in 1..Len(chatRequests)
  /\ chatRequests[k].stage = "sending"
  /\ ChatCaught(k)
  /\ UNCHANGED OutsideChat

\* one round of the for await loop (lines 74-80)
Chunk(k, chunkText) ==
  /\ k \in 1..Len(chatRequests)
  /\ chatRequests[k].stage = "streaming"
  /\ chatRequests[k].chunks < MaxChunks
  /\ LET fullText == chatRequests[k].fullText \o chunkText
     IN /\ chatRequests' = [chatRequests EXCEPT ![k].fullText = fullText,
                                                ![k].chunks = @ + 1]
        /\ messages' = [i \in 1..Len(messages) |->
                          IF messages[i].id = chatRequests[k].botMessageId
                          THEN [messages[i] EXCEPT !.text = fullText]
                          ELSE messages[i]]
  /\ UNCHANGED <<chatInput, isLoading, chatNow>>
  /\ UNCHANGED OutsideChat

\* the stream ends: the finally block (lines 88-90)
StreamEnd(k) ==
  /\ k \in 1..Len(chatRequests)
  /\ chatRequests[k].stage = "streaming"
  /\ isLoading' = FALSE
  /\ chatRequests' = RemoveAt(chatRequests, k)
  /\ UNCHANGED <<messages, chatInput, chatNow>>
  /\ UNCHANGED OutsideChat

\* the stream fails
StreamFail(k) ==
  /\ k \in 1..Len(chatRequests)
  /\ chatRequests[k].stage = "streaming"
  /\ ChatCaught(k)
  /\ UNCHANGED OutsideChat

\* the Clear Chat button, rendered when messages.length > 2 && !isLoading
\* (lines 92-100, 159-168)
clearChat ==
  /\ Len(messages) > 2
  /\ ~isLoading
  /\ messages' = <<ChatMessage(ChatId("welcome-", chatNow), "model", ClearedText)>>
  /\ UNCHANGED <<chatInput, isLoading, chatRequests, chatNow>>
  /\ UNCHANGED OutsideChat

\* a millisecond passes
ChatTick ==
  /\ chatNow < FirstTime + MaxTicks
  /\ chatNow' = chatNow + 1
  /\ UNCHANGED <<messages, chatInput, isLoading, chatRequests>>
  /\ UNCHANGED OutsideChat

NextChat ==
  \/ \E text \in ChatInputs : setInput(text)
  \/ ChatView_handleSubmit
  \/ \E k \in 1..MaxRequests : SendResolve(k)
  \/ \E k \in 1..MaxRequests : SendReject(k)
  \/ \E k \in 1..MaxRequests, chunkText \in ChunkTexts : Chunk(k, chunkText)
  \/ \E k \in 1..MaxRequests : StreamEnd(k)
  \/ \E k \in 1..MaxRequests : StreamFail(k)
  \/ clearChat
  \/ ChatTick

SpecChat == Init /\ [][NextChat]_vars

\* the messages are the first one followed by exchanges: a message of the
\* user, then at most one reply of the model, then at most one apology
InExchanges(list) ==
  \A i \in 2..Len(list) :
     /\ list[i].role = "user" => list[i - 1].role = "model"
     /\ list[i].role = "model" =>
          \/ list[i - 1].role = "user"
          \/ /\ i > 2
             /\ list[i].text = ApologyText
             /\ list[i - 1].text # ApologyText
             /\ list[i - 2].role = "user"

\* C28: at most one message request of ChatView is in flight.  handleSubmit
\* does nothing while isLoading is true or the input is blank; an accepted
\* submit appends the user's message, before any reply for it; isLoading is
\* false again when the reply stream ends or fails; a failure appends
\* exactly one apology; clearChat does not run while a request is in flight.
C28_OneChatRequest ==
  /\ [](Len(chatRequests) <= 1)
  /\ [](isLoading <=> chatRequests # <<>>)
  /\ [](InExchanges(messages))
  /\ [](chatRequests # <<>> =>
          \E i \in 1..Len(messages) :
             /\ messages[i].role = "user"
             /\ \A j \in (i + 1)..Len(messages) :
                   messages[j].id = chatRequests[1].botMessageId)
  /\ [][(ChatView_handleSubmit /\ (isLoading \/ Trim(chatInput) = ""))
          => UNCHANGED chatVars]_vars
  /\ [][Len(chatRequests') > Len(chatRequests) =>
          /\ messages' = Append(messages, ChatMessage(ChatId("", chatNow), "user", chatInput))
          /\ isLoading']_vars
  /\ [][(\E k \in 1..MaxRequests : SendReject(k) \/ StreamFail(k)) =>
          /\ Len(messages') = Len(messages) + 1
          /\ SubSeq(messages', 1, Len(messages)) = messages
          /\ messages'[Len(messages')].text = ApologyText
          /\ ~isLoading']_vars
  /\ [][(\E k \in 1..MaxRequests : StreamEnd(k)) => (~isLoading' /\ messages' = messages)]_vars
  /\ [][clearChat => chatRequests = <<>>]_vars

\* the reply to 'hi' broke off after its first chunk: the message of the
\* user, the partial reply and one apology follow the welcome, and nothing
\* is in flight
C28_Witness ==
  /\ Len(messages) = 4
  /\ messages[2].role = "user" /\ messages[2].text = "hi"
  /\ messages[3].role = "model" /\ messages[3].text = "a"
  /\ messages[4].text = ApologyText
  /\ ~isLoading
  /\ chatRequests = <<>>

(***************************************************************************)
(* SummaryView: Read Aloud, the stop button, the end of the playback, and  *)
(* the component leaving and entering the screen.                          *)
(***************************************************************************)
\* sourceRef.current.stop() of lines 46-53
Stopped(playing) ==
  IF sourceRef # Null THEN playing \ {sourceRef[1]} ELSE playing

\* the Read Aloud button, rendered while nothing loads and nothing plays
\* (lines 61-68, up to the await)
handlePlayAudio ==
  /\ mounted
  /\ ~isLoadingAudio /\ ~isPlaying
  /\ sources + Len(speechCalls) < MaxSources
  /\ isLoadingAudio' = TRUE
  /\ speechCalls' = Append(speechCalls, summaryViews)
  /\ UNCHANGED <<summaryViews, mounted, isPlaying, sourceRef, sources, sounding>>
  /\ UNCHANGED OutsideAudio

\* generateSpeech has resolved and the audio is decoded: the source starts
\* (lines 68-94, 99-101); the refs and the state are those of the
\* SummaryView the call was made in
SpeechResolve(k) ==
  /\ k \in 1..Len(speechCalls)
  /\ LET source == [view |-> speechCalls[k], n |-> sources + 1]
     IN /\ sounding' = sounding \cup {source}
        /\ sources' = sources + 1
        /\ IF speechCalls[k] = summaryViews
           THEN /\ sourceRef' = Some(source)
                /\ isPlaying' = IF mounted THEN TRUE ELSE isPlaying
                /\ isLoadingAudio' = IF mounted THEN FALSE ELSE isLoadingAudio
           ELSE UNCHANGED <<sourceRef, isPlaying, isLoadingAudio>>
  /\ speechCalls' = RemoveAt(speechCalls, k)
  /\ UNCHANGED <<summaryViews, mounted>>
  /\ UNCHANGED OutsideAudio

\* generateSpeech or the decoding has failed (lines 96-101)
SpeechReject(k) ==
  /\ k \in 1..Len(speechCalls)
  /\ speechCalls' = RemoveAt(speechCalls, k)
  /\ isLoadingAudio' = IF speechCalls[k] = summaryViews /\ mounted THEN FALSE
                       ELSE isLoadingAudio
  /\ UNCHANGED <<summaryViews, mounted, isPlaying, sourceRef, sources, sounding>>
  /\ UNCHANGED OutsideAudio

\* the stop button, rendered while isPlaying and not loading (lines 45-55,
\* 190-195)
stopAudio ==
  /\ mounted
  /\ isPlaying /\ ~isLoadingAudio
  /\ sounding' = Stopped(sounding)
  /\ sourceRef' = Null
  /\ isPlaying' = FALSE
  /\ UNCHANGED <<summaryViews, mounted, isLoadingAudio, speechCalls, sources>>
  /\ UNCHANGED OutsideAudio

\* the playback of source ends by itself: source.onended (line 91)
Ended(source) ==
  /\ source \in sounding
  /\ sounding' = sounding \ {source}
  /\ isPlaying' = IF source.view = summaryViews /\ mounted THEN FALSE ELSE isPlaying
  /\ UNCHANGED <<summaryViews, mounted, isLoadingAudio, sourceRef, speechCalls, sources>>
  /\ UNCHANGED OutsideAudio

\* SummaryView leaves the screen: the cleanup of the effect runs stopAudio
\* (lines 57-59)
Unmount ==
  /\ mounted
  /\ mounted' = FALSE
  /\ sounding' = Stopped(sounding)
  /\ sourceRef' = Null
  /\ isPlaying' = FALSE
  /\ UNCHANGED <<summaryViews, isLoadingAudio, speechCalls, sources>>
  /\ UNCHANGED OutsideAudio

\* a SummaryView is mounted again: new state and new refs
Mount ==
  /\ ~mounted
  /\ summaryViews < MaxMounts
  /\ summaryViews' = summaryViews + 1
  /\ mounted' = TRUE
  /\ isPlaying' = FALSE
  /\ isLoadingAudio' = FALSE
  /\ sourceRef' = Null
  /\ UNCHANGED <<speechCalls, sources, sounding>>
  /\ UNCHANGED OutsideAudio

AudioSources == {[view |-> v, n |-> n] : v \in 1..MaxMounts, n \in 1..MaxSources}

NextAudio ==
  \/ handlePlayAudio
  \/ \E k \in 1..MaxSources : SpeechResolve(k)
  \/ \E k \in 1..MaxSources : SpeechReject(k)
  \/ stopAudio
  \/ \E source \in AudioSources : Ended(source)
  \/ Unmount
  \/ Mount

SpecAudio == Init /\ [][NextAudio]_vars

\* C29: after SummaryView is unmounted no summary audio is playing and none
\* starts playing: every source that plays was started by the SummaryView
\* that is mounted.
C29_SilentAfterUnmount ==
  \A source \in sounding : mounted /\ source.view = summaryViews

\* SummaryView was unmounted while generateSpeech was pending; the speech
\* has arrived since and plays, with no SummaryView on screen
C29_Failure ==
  /\ ~mounted
  /\ summaryViews = 1
  /\ speechCalls = <<>>
  /\ sounding = {[view |-> 1, n |-> 1]}

(***************************************************************************)
(* FlashcardsView: next, previous, reset and flip.  The index changes in a *)
(* callback of setTimeout; the callbacks have the same delay, so they run  *)
(* in the order they were set.                                             *)
(***************************************************************************)
\* the updaters of lines 18, 25 and 179
NextIndex(prev, length) == (prev + 1) % length
PrevIndex(prev, length) == (prev - 1 + length) % length
IndexAfter(callback, prev, length) ==
  CASE callback = "next" -> NextIndex(prev, length)
    [] callback = "prev" -> PrevIndex(prev, length)
    [] callback = "reset" -> 0

\* FlashcardsView is mounted with flashcards.length cards (lines 12-13)
MountCards(length) ==
  /\ cardCount = 0
  /\ cardCount' = length
  /\ currentIndex' = 0
  /\ isFlipped' = FALSE
  /\ cardTimers' = <<>>
  /\ cardTurned' = FALSE
  /\ UNCHANGED OutsideCards

\* handleNext, handlePrev and the Reset button up to setTimeout (lines
\* 15-17, 22-24, 177-179)
Navigate(callback) ==
  /\ cardCount >= 1
  /\ Len(cardTimers) < MaxTimers
  /\ isFlipped' = FALSE
  /\ cardTimers' = Append(cardTimers, callback)
  /\ cardTurned' = FALSE
  /\ UNCHANGED <<cardCount, currentIndex>>
  /\ UNCHANGED OutsideCards

handleNext == Navigate("next")
handlePrev == Navigate("prev")
ResetCards == Navigate("reset")

\* lines 29-31
handleFlip ==
  /\ cardCount >= 1
  /\ isFlipped' = ~isFlipped
  /\ cardTurned' = FALSE
  /\ UNCHANGED <<cardCount, currentIndex, cardTimers>>
  /\ UNCHANGED OutsideCards

\* the delay of the oldest callback is over: it sets the index
TimerFires ==
  /\ cardTimers # <<>>
  /\ currentIndex' = IndexAfter(Head(cardTimers), currentIndex, cardCount)
  /\ cardTimers' = Tail(cardTimers)
  /\ cardTurned' = (currentIndex' # currentIndex)
  /\ UNCHANGED <<cardCount, isFlipped>>
  /\ UNCHANGED OutsideCards

NextCards ==
  \/ \E length \in 1..MaxCards : MountCards(length)
  \/ handleNext
  \/ handlePrev
  \/ ResetCards
  \/ handleFlip
  \/ TimerFires

SpecCards == Init /\ [][NextCards]_vars

\* C30: with N >= 1 flashcards currentIndex stays within 0..N-1; next wraps
\* from N-1 to 0 and previous from 0 to N-1; next followed by previous
\* returns to the same card; every navigation action shows the front side:
\* it sets isFlipped to false, and the card its index change brings up
\* shows its front.
C30_NavigationShowsFront ==
  /\ [](cardCount >= 1 => currentIndex \in 0..(cardCount - 1))
  /\ [][(TimerFires /\ Head(cardTimers) = "next") =>
          currentIndex' = (IF currentIndex = cardCount - 1 THEN 0 ELSE currentIndex + 1)]_vars
  /\ [][(TimerFires /\ Head(cardTimers) = "prev") =>
          currentIndex' = (IF currentIndex = 0 THEN cardCount - 1 ELSE currentIndex - 1)]_vars
  /\ [][(TimerFires /\ Len(cardTimers) >= 2
           /\ cardTimers[1] = "next" /\ cardTimers[2] = "prev") =>
          IndexAfter("prev", currentIndex', cardCount) = currentIndex]_vars
  /\ [][(handleNext \/ handlePrev \/ ResetCards) => ~isFlipped']_vars
  /\ [](cardTurned => ~isFlipped)

\* next was clicked on the first of two cards and the card was flipped
\* within the delay: the second card has come up showing its back
C30_Failure ==
  /\ cardCount = 2
  /\ currentIndex = 1
  /\ cardTurned
  /\ isFlipped
  /\ cardTimers = <<>>

(***************************************************************************)
(* FileUpload: typing a URL, the validation 300 ms after the last change,  *)
(* the submit, the metadata request, and the call of onInputSubmit.        *)
(***************************************************************************)
\* the characters of [\w-]
IdChars == "abcdefghijklmnopqrstuvwxyzABCDEFGHIJKLMNOPQRSTUVWXYZ0123456789_-"
IsIdChar(c) == \E j \in 1..Len(IdChars) : Ch(IdChars, j) = c

\* the alternatives of the pattern of line 54 between the host prefix and
\* the video id
YouTubePaths ==
  <<"youtube.com/watch?v=", "youtube.com/embed/", "youtube.com/v/",
    "youtube.com/shorts/", "youtube.com/live/", "youtu.be/">>

\* url.match(regExp) of lines 54-55: [ok, id], id being match[1]
YouTubeMatch(text) ==
  LET afterScheme == IF StartsWithAt(text, "https://", 1) THEN 9
                     ELSE IF StartsWithAt(text, "http://", 1) THEN 8 ELSE 1
      afterHost   == IF StartsWithAt(text, "www.", afterScheme) THEN afterScheme + 4
                     ELSE IF StartsWithAt(text, "m.", afterScheme) THEN afterScheme + 2
                     ELSE afterScheme
      paths       == {h \in 1..Len(YouTubePaths) : StartsWithAt(text, YouTubePaths[h], afterHost)}
  IN IF paths = {} THEN [ok |-> FALSE, id |-> ""]
     ELSE LET first == afterHost + Len(YouTubePaths[CHOOSE h \in paths : TRUE])
          IN IF /\ first + 10 <= Len(text)
                /\ \A j \in first..(first + 10) : IsIdChar(Ch(text, j))
                /\ \A j \in (first + 11)..Len(text) : Ch(text, j) \notin WS
             THEN [ok |-> TRUE, id |-> SubSeq(text, first, first + 10)]
             ELSE [ok |-> FALSE, id |-> ""]

\* what the user types or pastes
UrlTexts ==
  {"", "https://youtu.be/abcdefghijk", "youtube.com/watch?v=abc-DEF_123&t=5",
   "https://m.youtube.com/shorts/abcdefghij", "https://vimeo.com/abcdefghijk",
   "youtu.be/abcdefghijk now"}

\* data.title of the metadata ("" when the answer has none)
MetaTitles == {"", "Lecture 1"}

\* onChange and paste of the text field (lines 355, 370) and the effect of
\* lines 39-73 that follows the change
setUrl(text) ==
  /\ uploadMounted
  /\ text # url
  /\ url' = text
  /\ IF text = ""
     THEN /\ isValidUrl' = FALSE
          /\ videoId' = ""
          /\ videoTitle' = ""
          /\ isCheckingUrl' = FALSE
          /\ urlTimer' = Null
     ELSE /\ isCheckingUrl' = TRUE
          /\ urlTimer' = Some(text)
          /\ UNCHANGED <<isValidUrl, videoId, videoTitle>>
  /\ lastSubmit' = Null
  /\ UNCHANGED <<uploadMounted, isFetchingMeta, metaCalls>>
  /\ UNCHANGED OutsideUpload

\* the callback of the timeout (lines 52-70)
ValidateUrl ==
  /\ uploadMounted
  /\ urlTimer # Null
  /\ LET match == YouTubeMatch(urlTimer[1])
     IN IF match.ok /\ match.id # ""
        THEN /\ isValidUrl' = TRUE
             /\ videoId' = match.id
             /\ UNCHANGED videoTitle
        ELSE /\ isValidUrl' = FALSE
             /\ videoId' = ""
             /\ videoTitle' = ""
  /\ isCheckingUrl' = FALSE
  /\ urlTimer' = Null
  /\ lastSubmit' = Null
  /\ UNCHANGED <<uploadMounted, url, isFetchingMeta, metaCalls>>
  /\ UNCHANGED OutsideUpload

\* onInputSubmit('url', value, title) is called; App shows the processing
\* screen in place of FileUpload
CallOnInputSubmit(value, title) ==
  /\ lastSubmit' = Some([type |-> "url", value |-> value, title |-> title,
                         onLine |-> onLine])
  /\ uploadMounted' = FALSE
  /\ urlTimer' = Null

\* the form is submitted, or the thumbnail or the button under it is
\* clicked (lines 143-160, up to the await)
FileUpload_handleSubmit ==
  /\ uploadMounted
  /\ Len(metaCalls) < MaxSubmits
  /\ IF ~onLine \/ ~isValidUrl
     THEN /\ lastSubmit' = Null
          /\ UNCHANGED <<uploadMounted, isFetchingMeta, urlTimer, metaCalls>>
     ELSE IF videoTitle # ""
     THEN /\ CallOnInputSubmit(url, videoTitle)
          /\ isFetchingMeta' = FALSE
          /\ UNCHANGED metaCalls
     ELSE /\ isFetchingMeta' = TRUE
          /\ metaCalls' = Append(metaCalls, [url |-> url])
          /\ lastSubmit' = Null
          /\ UNCHANGED <<uploadMounted, urlTimer>>
  /\ UNCHANGED <<url, isValidUrl, isCheckingUrl, videoId, videoTitle>>
  /\ UNCHANGED OutsideUpload

\* the metadata has arrived (lines 160-172)
MetaResolve(k, title) ==
  /\ k \in 1..Len(metaCalls)
  /\ metaCalls' = RemoveAt(metaCalls, k)
  /\ videoTitle' = IF title # "" /\ uploadMounted THEN title ELSE videoTitle
  /\ isFetchingMeta' = IF uploadMounted THEN FALSE ELSE isFetchingMeta
  /\ CallOnInputSubmit(metaCalls[k].url, title)
  /\ UNCHANGED <<url, isValidUrl, isCheckingUrl, videoId>>
  /\ UNCHANGED OutsideUpload

\* the metadata request has failed (lines 167-172)
MetaReject(k) ==
  /\ k \in 1..Len(metaCalls)
  /\ metaCalls' = RemoveAt(metaCalls, k)
  /\ isFetchingMeta' = IF uploadMounted THEN FALSE ELSE isFetchingMeta
  /\ CallOnInputSubmit(metaCalls[k].url, "")
  /\ UNCHANGED <<url, isValidUrl, isCheckingUrl, videoId, videoTitle>>
  /\ UNCHANGED OutsideUpload

NextUpload ==
  \/ \E text \in UrlTexts : setUrl(text)
  \/ ValidateUrl
  \/ FileUpload_handleSubmit
  \/ \E k \in 1..MaxSubmits, title \in MetaTitles : MetaResolve(k, title)
  \/ \E k \in 1..MaxSubmits : MetaReject(k)
  \/ \E b \in BOOLEAN : setOnLine(b)

SpecUpload == Init /\ [][NextUpload]_vars

\* the call of onInputSubmit that the last step of FileUpload made, if any
UrlSubmits == IF lastSubmit # Null THEN {lastSubmit[1]} ELSE {}

\* C26: FileUpload calls onInputSubmit('url', u, ...) only with a URL u that
\* matches the YouTube URL pattern, and never while the browser is offline.
C26_OnlyValidUrlsOnline ==
  \A c \in UrlSubmits : YouTubeMatch(c.value).ok /\ c.onLine

\* a valid URL was validated, the text was changed to a URL of another site
\* and submitted before its validation ran: onInputSubmit was called with it
C26_Failure ==
  \E c \in UrlSubmits :
    /\ c.value = "https://vimeo.com/abcdefghijk"
    /\ ~YouTubeMatch(c.value).ok
    /\ c.onLine

====
